---- MODULE Spec2Model ----
(***************************************************************************)
(* Translation pipeline of pptx2md: paragraph collection, the batched,     *)
(* deduplicating translate_texts protocol, paragraph-level reinsertion and  *)
(* the progress side channel (src/pptx2md/translate.py, ppt_generator.py,   *)
(* reinsert_v2.py).                                                         *)
(*                                                                          *)
(* A text is a sequence of symbols: a word ("Hello") or the blank SP.       *)
(* Python's 0-based indices are 1-based here.                               *)
(***************************************************************************)
EXTENDS Integers, Sequences, FiniteSets, TLC

\* ---------------------------------------------------------------- bounds
\* Largest number of paragraphs of a small document.
MaxParas == 3
\* Largest batch_size argument (0 exercises max(1, batch_size)).
MaxBatch == 3
\* Paragraph count of the large, uniform document.
LargeN == 50
\* Longest archive handed to optimize_pptx_media_zip.
MaxEntries == 3
\* The largest number of shapes, groups included, of a shape tree that is
\* walked on its own.
MaxShapes == 4
\* The largest number of slides of a presentation that is extracted.
MaxSlides == 2

\* ------------------------------------------------------- program constants
MAX_TRANSLATION_RETRIES == 1
\* content[:2000]
SnippetLimit == 2000
\* (idx + 1) % 50 == 0
ApplyLogEvery == 50
\* stats["optimized"] % 10 == 0
ImageLogEvery == 10

\* ------------------------------------------------------------------ texts
SP == " "

Hello == <<"Hello">>
World == <<"World">>

\* str.strip() is empty: the text holds nothing but whitespace.
IsBlank(text) == \A i \in 1..Len(text) : text[i] = SP

\* len(text.split()): the number of maximal runs of non-blank symbols.
WordCount(text) ==
    Cardinality({i \in 1..Len(text) :
                    text[i] # SP /\ (i = 1 \/ text[i - 1] = SP)})

RECURSIVE SumWords(_)
SumWords(texts) ==
    IF texts = <<>> THEN 0 ELSE WordCount(Head(texts)) + SumWords(Tail(texts))

\* "".join(run.text for run in paragraph.runs)
RECURSIVE JoinRuns(_)
JoinRuns(runs) ==
    IF runs = <<>> THEN <<>> ELSE Head(runs).text \o JoinRuns(Tail(runs))

Min(a, b) == IF a <= b THEN a ELSE b
Max(a, b) == IF a >= b THEN a ELSE b

RECURSIVE Concat(_)
Concat(seqs) == IF seqs = <<>> THEN <<>> ELSE Head(seqs) \o Concat(Tail(seqs))

\* -------------------------------------------------------------- documents
\* The font of a run: the properties _extract_font_properties reads.  A
\* property that is not set reads None ("none"); a typeface name is absent or
\* a non-empty string, a size absent or a positive length; the colour is an
\* explicit RGB value, a theme colour, or not set.
Font(name, size, bold, italic, underline, color) ==
    [name |-> name, size |-> size, bold |-> bold, italic |-> italic,
     underline |-> underline, color |-> color]
NoColor == [type |-> "none", value |-> "none"]
RgbColor == [type |-> "rgb", value |-> "FF0000"]
ThemeColor == [type |-> "theme", value |-> "ACCENT_1"]
NoFont == Font("none", "none", "none", "none", "none", NoColor)
FontRich == Font("Arial", "24pt", "true", "false", "none", RgbColor)
FontTheme == Font("none", "none", "false", "none", "true", ThemeColor)

\* A property whose attribute is malformed: reading it raises.
Unreadable == "raises"
FontBadSize == Font("Arial", Unreadable, "true", "false", "none", RgbColor)
FontBadBold == Font("Arial", "24pt", Unreadable, "false", "none", ThemeColor)
FontBadColor == Font("Arial", "24pt", "true", "false", "none",
                     [type |-> Unreadable, value |-> "none"])

\* The properties _extract_font_properties reads outside its try block.
UnguardedProps == {"name", "size", "bold", "italic", "underline"}

\* The properties _apply_font_properties sets, each in a try block of its own.
SetterProps == {"name", "size", "bold", "italic", "underline", "color"}

\* A run of a paragraph.
FontRun(text, font) == [text |-> text, font |-> font]

\* paragraph.add_run() with its text set: a run without properties of its own.
Run(text) == FontRun(text, NoFont)

\* The paragraphs a document may hold: no run, a blank run, one run, two runs.
ParaNoRuns == <<>>
ParaBlank == <<FontRun(<<SP>>, NoFont)>>
ParaHello == <<FontRun(Hello, FontRich)>>
ParaWorld == <<FontRun(World, FontTheme)>>
ParaTwoRuns == <<FontRun(Hello, FontTheme), FontRun(<<SP, "World">>, FontRich)>>
ParaBadSize == <<FontRun(Hello, FontBadSize)>>
ParaBadBold == <<FontRun(World, FontBadBold)>>
ParaBadColor == <<FontRun(Hello, FontBadColor)>>

\* if font_props.get(...): a value that is neither None nor empty nor zero.
Truthy(v) == v \notin {"none", "", "0pt"}

\* _extract_font_properties: the fingerprint of a run.
_extract_font_properties(run) ==
    [name |-> run.font.name, size |-> run.font.size, bold |-> run.font.bold,
     italic |-> run.font.italic, underline |-> run.font.underline,
     color |-> IF run.font.color.type = "rgb" /\ Truthy(run.font.color.value)
               THEN run.font.color
               ELSE IF run.font.color.type = "theme" /\ run.font.color.value # "none"
               THEN run.font.color
               ELSE NoColor]

\* font.name, font.size, font.bold, font.italic, font.underline are read in
\* the return statement, outside any try block: whether one of them raises.
ExtractRaises(run) == \E p \in UnguardedProps : run.font[p] = Unreadable

\* A faulty variant: bold, italic and underline are restored when they are
\* true only.
ApplyFontTruthy(run, font_props) ==
    [run EXCEPT !.font =
        [name |-> IF Truthy(font_props.name) THEN font_props.name ELSE @.name,
         size |-> IF Truthy(font_props.size) THEN font_props.size ELSE @.size,
         bold |-> IF font_props.bold = "true" THEN font_props.bold ELSE @.bold,
         italic |-> IF font_props.italic = "true" THEN font_props.italic ELSE @.italic,
         underline |-> IF font_props.underline = "true" THEN font_props.underline
                       ELSE @.underline,
         color |-> IF font_props.color # NoColor THEN font_props.color ELSE @.color]]

\* _apply_font_properties: the run with the fingerprint's properties set.
_apply_font_properties(run, font_props) ==
    [run EXCEPT !.font =
        [name |-> IF Truthy(font_props.name) THEN font_props.name ELSE @.name,
         size |-> IF Truthy(font_props.size) THEN font_props.size ELSE @.size,
         bold |-> IF font_props.bold # "none" THEN font_props.bold ELSE @.bold,
         italic |-> IF font_props.italic # "none" THEN font_props.italic ELSE @.italic,
         underline |-> IF font_props.underline # "none" THEN font_props.underline
                       ELSE @.underline,
         color |-> IF font_props.color # NoColor
                      /\ (font_props.color.type = "rgb" => Truthy(font_props.color.value))
                      /\ (font_props.color.type = "theme" => font_props.color.value # "none")
                   THEN font_props.color ELSE @.color]]

\* The order of the try blocks of _apply_font_properties.
SetterOrder == <<"name", "size", "bold", "italic", "underline", "color">>

\* A faulty variant: one try block around all the setters, so that the first
\* that raises drops those after it.
SetFontAborts(run, font_props, failing) ==
    LET first == IF \E k \in 1..Len(SetterOrder) : SetterOrder[k] \in failing
                 THEN CHOOSE k \in 1..Len(SetterOrder) :
                         /\ SetterOrder[k] \in failing
                         /\ \A j \in 1..(k - 1) : SetterOrder[j] \notin failing
                 ELSE Len(SetterOrder) + 1
        set == {SetterOrder[k] : k \in 1..(first - 1)}
        applied == _apply_font_properties(run, font_props).font
    IN  [run EXCEPT !.font =
            [name |-> IF "name" \in set THEN applied.name ELSE @.name,
             size |-> IF "size" \in set THEN applied.size ELSE @.size,
             bold |-> IF "bold" \in set THEN applied.bold ELSE @.bold,
             italic |-> IF "italic" \in set THEN applied.italic ELSE @.italic,
             underline |-> IF "underline" \in set THEN applied.underline ELSE @.underline,
             color |-> IF "color" \in set THEN applied.color ELSE @.color]]

\* _apply_font_properties over a run whose setters in failing raise: every
\* property is set in a try block of its own, `except Exception: pass`
\* leaves the property of a raising setter as it was and goes on to the next.
SetFont(run, font_props, failing) ==
    LET applied == _apply_font_properties(run, font_props).font
    IN  [run EXCEPT !.font =
            [name |-> IF "name" \in failing THEN @.name ELSE applied.name,
             size |-> IF "size" \in failing THEN @.size ELSE applied.size,
             bold |-> IF "bold" \in failing THEN @.bold ELSE applied.bold,
             italic |-> IF "italic" \in failing THEN @.italic ELSE applied.italic,
             underline |-> IF "underline" \in failing THEN @.underline ELSE applied.underline,
             color |-> IF "color" \in failing THEN @.color ELSE applied.color]]
ParagraphSet == {ParaNoRuns, ParaBlank, ParaHello, ParaWorld, ParaTwoRuns}

\* Shapes.  Paragraphs and image parts are objects of the loaded presentation:
\* a text frame or a table cell holds the handles of its paragraphs (the
\* variable paragraphs holds their runs), a picture or a picture fill the
\* handle of its image part (the variable parts holds their bytes; 0: none).
Shape(kind, id, hs, rows, shapes, part, fill) ==
    [kind |-> kind, shape_id |-> id, paragraphs |-> hs, rows |-> rows,
     shapes |-> shapes, part |-> part, fill |-> fill]
TextShape(id, hs, fill) == Shape("text", id, hs, <<>>, <<>>, 0, fill)
TableShape(id, rows) == Shape("table", id, <<>>, rows, <<>>, 0, 0)
PictureShape(id, part) == Shape("picture", id, <<>>, <<>>, <<>>, part, 0)
GroupShape(shapes) == Shape("group", 0, <<>>, <<>>, shapes, 0, 0)

\* A slide: its shape tree and the image part of its background (0: none).
Slide(shapes, background) == [shapes |-> shapes, background |-> background]

Range(a, b) == [i \in 1..(b - a + 1) |-> a + i - 1]

\* The rows of a table over the paragraph handles a..b: a first row of one
\* cell holding the first paragraph, a second row of a cell holding the others
\* and a cell without paragraphs.
TableRows(a, b) ==
    IF a > b THEN << <<<<>>>> >>
    ELSE << <<Range(a, a)>>, <<Range(a + 1, b), <<>>>> >>

\* A presentation of n paragraphs: the first half in a top-level text frame of
\* slide 1, the rest in the cells of a table inside nested groups of slide 2.
\* The text frame is filled with the picture of part 1, which the picture of
\* slide 1 shows too; the picture of slide 2 shows part 2 and the background
\* of slide 2 is part 3.
Presentation(n) ==
    LET n1 == (n + 1) \div 2
    IN  << Slide(<<TextShape(2, Range(1, n1), 1), PictureShape(3, 1)>>, 0),
           Slide(<<GroupShape(<<PictureShape(4, 2),
                                GroupShape(<<TableShape(5, TableRows(n1 + 1, n))>>)>>)>>,
                 3) >>

\* A faulty variant: the shapes of a group are yielded as they are.
IterShapesOneLevel(shapes) ==
    Concat([k \in 1..Len(shapes) |->
              IF shapes[k].kind = "group" THEN shapes[k].shapes ELSE <<shapes[k]>>])

\* _iter_shapes: the non-group shapes, depth first.
RECURSIVE _iter_shapes(_)
_iter_shapes(shapes) ==
    IF shapes = <<>> THEN <<>>
    ELSE LET s == Head(shapes)
         IN  (IF s.kind = "group" THEN _iter_shapes(s.shapes) ELSE <<s>>)
             \o _iter_shapes(Tail(shapes))

\* The paragraphs captured from one text frame (or from the cells of one
\* table): those with a run and a non-blank joined text.
RECURSIVE CollectFrame(_, _, _, _)
CollectFrame(slide_idx, shape, hs, heap) ==
    IF hs = <<>> THEN <<>>
    ELSE LET h == Head(hs)
             full_paragraph_text == JoinRuns(heap[h])
             rest == CollectFrame(slide_idx, shape, Tail(hs), heap)
         IN  IF heap[h] = <<>> \/ IsBlank(full_paragraph_text)
             THEN rest
             ELSE <<[slide_idx |-> slide_idx, shape_id |-> shape.shape_id,
                     original_text |-> full_paragraph_text,
                     first_run_font |-> _extract_font_properties(heap[h][1]),
                     paragraph_ref |-> h]>> \o rest

\* for row in table.rows: for cell in row.cells: the cell's text frame.
CollectTable(slide_idx, shape, heap) ==
    Concat([r \in 1..Len(shape.rows) |->
              Concat([c \in 1..Len(shape.rows[r]) |->
                        CollectFrame(slide_idx, shape, shape.rows[r][c], heap)])])

\* One shape of the collection loop: a table (has_table) is read cell by cell,
\* any other shape through its text_frame when it has one.  with_tables is
\* FALSE for reinsert_v2.py, whose loop reads text frames only.
CollectShape(slide_idx, shape, heap, with_tables) ==
    IF shape.kind = "table"
    THEN IF with_tables THEN CollectTable(slide_idx, shape, heap) ELSE <<>>
    ELSE IF shape.kind = "text"
         THEN CollectFrame(slide_idx, shape, shape.paragraphs, heap)
         ELSE <<>>

CollectShapes(slide_idx, shapes, heap, with_tables) ==
    Concat([k \in 1..Len(shapes) |->
              CollectShape(slide_idx, shapes[k], heap, with_tables)])

\* Whether _extract_font_properties raises in the collection loop, which
\* calls it outside any try block: for a paragraph that is captured.
CollectRaises(prs, heap, with_tables) ==
    LET captured == Concat([k \in 1..Len(prs) |->
                      CollectShapes(k - 1, _iter_shapes(prs[k].shapes), heap, with_tables)])
    IN  \E i \in 1..Len(captured) : ExtractRaises(heap[captured[i].paragraph_ref][1])

\* The collection loop over prs.slides.
CollectParagraphs(prs, heap, with_tables) ==
    Concat([k \in 1..Len(prs) |->
              CollectShapes(k - 1, _iter_shapes(prs[k].shapes), heap, with_tables)])

\* ------------------------------------------------------------- translator
\* The items of a "result" array: a string, null, or another JSON value (v is
\* then its str()).
ItemStr(text) == [t |-> "str", v |-> text]
ItemNull == [t |-> "null", v |-> <<>>]
ItemNum == [t |-> "num", v |-> <<"7">>]
Annyeong == <<"Annyeong">>
Segye == <<"Segye">>
Items == {ItemStr(Annyeong), ItemNull, ItemNum}

\* A response body: a JSON object with a "result" array (kind "ok"), text that
\* is no JSON, a JSON value that is no object, an object without a "result"
\* array, or no content at all.  len is the length of a malformed body.
OkBody(result) == [kind |-> "ok", result |-> result, len |-> 0]
BadBody(kind, len) == [kind |-> kind, result |-> <<>>, len |-> len]
MalformedKinds == {"not_json", "not_object", "no_result"}
MalformedBodies ==
    {BadBody(k, l) : k \in MalformedKinds, l \in {SnippetLimit - 1, SnippetLimit + 1}}
        \cup {BadBody("empty", 0)}

\* The deterministic stubs: the identity, and a dictionary that knows Hello and
\* World and answers null for anything else.
Stubs == {"identity", "dict"}
StubItem(stub, text) ==
    IF stub = "identity" THEN ItemStr(text)
    ELSE IF text = Hello THEN ItemStr(Annyeong)
    ELSE IF text = World THEN ItemStr(Segye)
    ELSE ItemNull

\* What the translator may answer to a request for payload: a stub answers item
\* by item; the free translator answers any array of the requested length, an
\* array one shorter or one longer, or a malformed body.
Responses(translator, payload) ==
    IF translator \in Stubs
    THEN {OkBody([j \in 1..Len(payload) |-> StubItem(translator, payload[j])])}
    ELSE {OkBody(r) : r \in [1..Len(payload) -> Items]}
           \cup {OkBody([j \in 1..(Len(payload) - 1) |-> ItemStr(Annyeong)]),
                 OkBody([j \in 1..(Len(payload) + 1) |-> ItemStr(Annyeong)])}
           \cup MalformedBodies

\* content = (resp.choices[0].message.content or "{}").strip()
Content(raw) == IF raw.kind = "empty" THEN BadBody("no_result", 2) ELSE raw

\* _decode_translation_payload: the ValueError it raises ("" when it returns).
DecodeError(content) ==
    CASE content.kind = "not_json" -> "Invalid JSON payload"
      [] content.kind = "not_object" -> "Payload root is not an object"
      [] content.kind = "no_result" -> "Missing 'result' array"
      [] OTHER -> ""

\* The normalisation loop of _decode_translation_payload.
NormalizeItem(item) ==
    IF item.t = "str" THEN item.v
    ELSE IF item.t = "null" THEN <<>>
    ELSE item.v

Decoded(content) == [j \in 1..Len(content.result) |-> NormalizeItem(content.result[j])]

\* snippet = content[:2000], kept as the body's kind and the snippet's length.
Snippet(content) == [kind |-> content.kind, len |-> Min(content.len, SnippetLimit)]

\* unique_texts.index(t), 1-based.
IndexIn(seq, t) == CHOOSE k \in 1..Len(seq) : seq[k] = t

\* The de-duplication loop of translate_texts: index_of, unique_texts and
\* back_refs after the texts have been read in order.
RECURSIVE DedupLoop(_, _, _)
DedupLoop(texts, unique_texts, back_refs) ==
    IF texts = <<>> THEN [unique_texts |-> unique_texts, back_refs |-> back_refs]
    ELSE LET t == Head(texts)
         IN  IF \E k \in 1..Len(unique_texts) : unique_texts[k] = t
             THEN DedupLoop(Tail(texts), unique_texts,
                            Append(back_refs, IndexIn(unique_texts, t)))
             ELSE DedupLoop(Tail(texts), Append(unique_texts, t),
                            Append(back_refs, Len(unique_texts) + 1))

\* A faulty variant: every text is sent, repeated or not.
DedupNone(texts) ==
    [unique_texts |-> texts, back_refs |-> [i \in 1..Len(texts) |-> i]]

Dedup(texts) == DedupLoop(texts, <<>>, <<>>)

\* A faulty variant: the decoded array is returned as it came.
RebuildUnmapped(decoded, back_refs) == decoded

\* return [decoded[i] for i in back_refs]
Rebuild(decoded, back_refs) == [i \in 1..Len(back_refs) |-> decoded[back_refs[i]]]

\* A faulty variant: one retry more.
LastAttemptLate(attempt) == attempt >= MAX_TRANSLATION_RETRIES + 1

\* for attempt in range(MAX_TRANSLATION_RETRIES + 1): whether a parse failure
\* at this attempt is final.
LastAttempt(attempt) == attempt >= MAX_TRANSLATION_RETRIES

\* ----------------------------------------------------------------- images
\* The bytes of an image: their format, their length, and the length of what
\* the codec writes when it re-encodes them (downscaled, at the set quality).
Blob(fmt, size, enc) == [fmt |-> fmt, size |-> size, enc |-> enc]
NoBlob == Blob("none", 0, 0)

\* The codec's output for decodable bytes; encoding it again gives its size.
Encode(blob) == Blob(blob.fmt, blob.enc, blob.enc)

\* A faulty variant: the encoded bytes are returned whatever their length.
RecompressAlways(original) ==
    IF original.fmt \notin {"JPEG", "PNG"} THEN NoBlob ELSE Encode(original)

\* _recompress_blob: None when the bytes cannot be decoded (the exception is
\* caught), when the format is neither JPEG nor PNG, and when the encoded
\* bytes are not shorter.
_recompress_blob(original) ==
    IF original.fmt = "BAD" THEN NoBlob
    ELSE IF original.fmt \notin {"JPEG", "PNG"} THEN NoBlob
    ELSE IF Encode(original).size < original.size THEN Encode(original)
    ELSE NoBlob

\* if new_blob and len(new_blob) < len(orig)
Smaller(new_blob, orig) == new_blob # NoBlob /\ new_blob.size > 0 /\ new_blob.size < orig.size

JpegLarge == Blob("JPEG", 9, 4)
JpegTight == Blob("JPEG", 3, 3)
PngLarge == Blob("PNG", 6, 5)
GifImage == Blob("GIF", 5, 2)
BadImage == Blob("BAD", 4, 1)
PngGrows == Blob("PNG", 4, 6)
BlobSet == {JpegLarge, JpegTight, PngLarge, GifImage, BadImage, PngGrows}

NoStats ==
    [pictures |-> 0, fills |-> 0, backgrounds |-> 0, candidates |-> 0, optimized |-> 0,
     failures |-> 0, bytes_saved |-> 0, skipped_no_saving |-> 0,
     unsupported_formats |-> 0, media |-> 0]

\* The state of compress_images_in_presentation: the image parts, the cache,
\* the statistics, the bytes handed to _recompress_blob and the ratios handed
\* to progress_cb, in order.
CompressStart(image_parts) ==
    [parts |-> image_parts, cache |-> <<>>, stats |-> NoStats, calls |-> <<>>,
     ratios |-> <<>>]

\* One image part met by the walk: the cache is asked by the hash of the
\* part's bytes, the bytes are recompressed on a miss, and replaced when the
\* result is shorter.  Pictures and picture fills tell the callback of every
\* ImageLogEvery-th replacement, backgrounds do not.
OptimizePart(st, part, tells) ==
    LET orig == st.parts[part]
        hit == \E k \in 1..Len(st.cache) : st.cache[k].h = orig
        new_blob == IF hit
                    THEN st.cache[CHOOSE k \in 1..Len(st.cache) : st.cache[k].h = orig].blob
                    ELSE _recompress_blob(orig)
        optimized == st.stats.optimized + 1
    IN  [parts |-> IF Smaller(new_blob, orig) THEN [st.parts EXCEPT ![part] = new_blob]
                   ELSE st.parts,
         cache |-> IF hit THEN st.cache ELSE Append(st.cache, [h |-> orig, blob |-> new_blob]),
         calls |-> IF hit THEN st.calls ELSE Append(st.calls, orig),
         stats |-> IF Smaller(new_blob, orig)
                   THEN [st.stats EXCEPT !.candidates = @ + 1, !.optimized = optimized,
                                         !.bytes_saved = @ + (orig.size - new_blob.size)]
                   ELSE [st.stats EXCEPT !.candidates = @ + 1, !.skipped_no_saving = @ + 1],
         ratios |-> IF tells /\ Smaller(new_blob, orig) /\ optimized % ImageLogEvery = 0
                    THEN Append(st.ratios, 995)
                    ELSE st.ratios]

\* One shape of the walk: a picture, or another shape filled with a picture.
OptimizeShape(st, shp) ==
    IF shp.kind # "picture"
    THEN IF shp.fill # 0
         THEN OptimizePart([st EXCEPT !.stats.fills = @ + 1], shp.fill, TRUE)
         ELSE st
    ELSE IF shp.part = 0
         THEN [st EXCEPT !.stats.pictures = @ + 1]
         ELSE OptimizePart([st EXCEPT !.stats.pictures = @ + 1], shp.part, TRUE)

RECURSIVE OptimizeShapes(_, _)
OptimizeShapes(st, shapes) ==
    IF shapes = <<>> THEN st
    ELSE OptimizeShapes(OptimizeShape(st, Head(shapes)), Tail(shapes))

\* One slide: its shapes, then its background picture.
OptimizeSlide(st, slide) ==
    LET after == OptimizeShapes(st, _iter_shapes(slide.shapes))
    IN  IF slide.background # 0
        THEN OptimizePart([after EXCEPT !.stats.backgrounds = @ + 1], slide.background, FALSE)
        ELSE after

RECURSIVE OptimizeSlides(_, _)
OptimizeSlides(st, prs) ==
    IF prs = <<>> THEN st
    ELSE OptimizeSlides(OptimizeSlide(st, Head(prs)), Tail(prs))

\* compress_images_in_presentation, the callback apart: the walk over the
\* slides, between the opening ratio 0.99 and the closing ratio 0.999.
compress_images_in_presentation(prs, image_parts) ==
    LET st == OptimizeSlides([CompressStart(image_parts) EXCEPT !.ratios = <<990>>], prs)
    IN  [st EXCEPT !.ratios = Append(@, 999)]

\* try: progress_cb(...) / except Exception: pass, in
\* compress_images_in_presentation: whether the walk goes on after the
\* callback raised.
CompressSwallows(raised) == TRUE

\* The same in optimize_pptx_media_zip.
ZipSwallows(raised) == TRUE

\* An archive entry: whether its name is ppt/media/*.jpg, .jpeg or .png, and
\* its bytes.
Entry(name, media, data) == [name |-> name, media |-> media, data |-> data]

\* ------------------------------------------------------------------ state
VARIABLES
    entry,              \* the function called
    slides,             \* prs.slides: per slide, its shape tree
    batch_size,         \* the batch_size argument
    callback,           \* "none": no progress_callback; "returns": one that never
                        \* raises; "raises": one that may raise when invoked
    translator,         \* "free" or a stub
    api_key,            \* whether OPENAI_API_KEY is set
    pc,                 \* where the call stands
    input_file,         \* the presentation file as it is read: its paragraphs and parts
    paragraphs,         \* the runs of every paragraph of the loaded presentation
    parts,              \* the bytes of every image part of the loaded presentation
    archive,            \* optimize_pptx_media_zip: the entries of the input archive
    zout,               \* the entries written to the output archive
    stats,              \* the statistics optimize_pptx_media_zip counts
    paragraph_infos,
    texts_to_translate,
    translated_texts,
    start,              \* range(0, total, safe_batch_size)
    texts,              \* translate_texts: its argument
    unique_texts,
    back_refs,
    attempt,
    messages,
    content,            \* translate_texts: the body of the last response
    idx,                \* the reinsertion loop's enumerate index
    progress,           \* the payloads handed to the callback, in order
    cbRaised,           \* whether an invocation of the callback has raised
    clients,            \* how many OpenAI clients were built
    requests,           \* the chat.completions requests sent, in order
    answers,            \* per returned translate_texts call: its texts, payload, decoded array
    mismatch_at,        \* the request answered by an array of another length (0: none)
    err,                \* the exception that ended the call ("" when none)
    snippet,            \* the snippet of the parse error
    saved,              \* the document written by prs.save
    returned,           \* the return value
    options,            \* extract_pptx_to_docs: the ExtractOptions
    policy,             \* create_translated_copy: the OverflowPolicy
    translated_docs,    \* create_translated_copy: the translated SlideDocs
    rephraser,          \* how the rephrasing call behind shorten_line answers
    walked,             \* the shapes _iter_shapes has yielded, in order
    docs,               \* the SlideDocs extract_pptx_to_docs returned
    markdown,           \* the text docs_to_markdown returned
    faults,             \* the library calls that raised during reinsertion
    glossary_file,      \* streamlit_app: the file in the glossary uploader
    session_state,      \* streamlit_app: cached_glossary and cached_glossary_meta
    cfg,                \* streamlit_app: the TranslationConfig run_action built
    stack               \* _iter_shapes: the generators that are running, outermost first

vars == <<entry, slides, batch_size, callback, translator, api_key, pc, input_file,
          paragraphs, parts, archive, zout, stats,
          paragraph_infos, texts_to_translate, translated_texts, start, texts,
          unique_texts, back_refs, attempt, messages, content, idx, progress, cbRaised,
          clients, requests, answers, mismatch_at, err, snippet, saved, returned,
          options, policy, translated_docs, rephraser, walked, docs, markdown, faults,
          glossary_file, session_state, cfg, stack>>

inputs == <<entry, slides, batch_size, callback, translator, api_key, archive, input_file,
            options, policy, translated_docs, rephraser>>
zip == <<zout, stats>>
app == <<glossary_file, session_state, cfg>>
frame == <<texts, unique_texts, back_refs, attempt, messages, content>>
ghosts == <<clients, requests, answers, mismatch_at>>

NoDocument == [written |-> FALSE, paragraphs |-> <<>>, parts |-> <<>>]
Value(kind, slide_count, word_count, list, image_stats) ==
    [kind |-> kind, slides |-> slide_count, word_count |-> word_count, texts |-> list,
     images |-> image_stats]
NoValue == Value("none", 0, 0, <<>>, NoStats)
Stats(slide_count, word_count) == Value("stats", slide_count, word_count, <<>>, NoStats)
TextList(list) == Value("list", 0, 0, list, NoStats)
ImageStats(image_stats) == Value("image_stats", 0, 0, <<>>, image_stats)
NoSnippet == [kind |-> "", len |-> 0]
NoContent == BadBody("", 0)

\* --------------------------------------------------------------- progress
\* A ratio is kept as an integer: the ratio times 1000 times the number of
\* texts (times 1000 when there is none), so that 0.1 + 0.7 * (end / total)
\* is exact.
Unit(total) == Max(1, total)
Thousandths(n, total) == n * Unit(total)
One(total) == Thousandths(1000, total)

\* payload["ratio"] = max(0.0, min(1.0, ratio))
Clamp(ratio, total) == Max(0, Min(One(total), ratio))

Event(msg, ratio) == [msg |-> msg, ratio |-> ratio]

\* ratio = progress_base + progress_span * (completed / total)
BatchRatio(end, total) == 100 * total + 700 * end
\* pre_ratio = max(progress_base, ratio - 0.02)
PreRatio(end, total) == Max(100 * total, BatchRatio(end, total) - 20 * total)
\* 0.9 + 0.09 * stage_progress, stage_progress = (idx + 1) / max(1, total_apply)
ApplyRatio(done, total_apply) == 900 * total_apply + 90 * done

\* if progress_callback: the events reach the callback when there is one.
Deliver(log, events) == IF callback = "none" THEN log ELSE log \o events

\* Whether an invocation of the callback may raise.
MayRaise == IF callback = "raises" THEN BOOLEAN ELSE {FALSE}

\* A faulty variant: the callback's exception leaves the call.
LogPropagates(raised) == ~raised

\* try: progress_callback(payload) / except Exception: pass, in _log and at the
\* first event: whether the call goes on after the callback raised or not.
LogSwallows(raised) == TRUE

\* safe_batch_size = max(1, batch_size); reinsert_v2.py translates all texts
\* in one call.
SafeBatchSize == IF entry = "reinsert_v2" THEN Max(1, Len(texts_to_translate))
                 ELSE Max(1, batch_size)

Fail(e) == pc' = "failed" /\ err' = e

\* ------------------------------------------------------------------- Init
TextSet == {Hello, World, JoinRuns(ParaTwoRuns)}

SeqsUpTo(S, n) == UNION {[1..k -> S] : k \in 0..n}

\* The presentation of this model has three image parts.
MaxParts == 3

\* No file in the uploader, nothing cached, no TranslationConfig built.
NoFile == [ext |-> "none"]
NoGlossary == [kind |-> "none", rows |-> <<>>]
NoSession == [cached_glossary |-> NoGlossary, cached_glossary_meta |-> NoFile]
NoConfig == [glossary |-> NoGlossary, built |-> FALSE]

InitLocals ==
    /\ pc = "start"
    /\ paragraph_infos = <<>>
    /\ translated_texts = <<>>
    /\ start = 0
    /\ texts = <<>>
    /\ unique_texts = <<>>
    /\ back_refs = <<>>
    /\ attempt = 0
    /\ messages = <<>>
    /\ content = NoContent
    /\ mismatch_at = 0
    /\ idx = 0
    /\ progress = <<>>
    /\ cbRaised = FALSE
    /\ clients = 0
    /\ requests = <<>>
    /\ answers = <<>>
    /\ err = ""
    /\ snippet = NoSnippet
    /\ saved = NoDocument
    /\ returned = NoValue
    /\ zout = <<>>
    /\ stats = NoStats
    /\ walked = <<>>
    /\ docs = <<>>
    /\ markdown = <<>>
    /\ faults = <<>>
    /\ stack = <<>>

\* A call of the library, outside the streamlit application.
InitCall ==
    /\ InitLocals
    /\ glossary_file = NoFile
    /\ session_state = NoSession
    /\ cfg = NoConfig

\* The calls that take neither ExtractOptions nor an OverflowPolicy.
NoBlockInputs ==
    /\ options = "none"
    /\ policy = "none"
    /\ translated_docs = <<>>
    /\ rephraser = "none"

\* The image parts of Presentation(n): parts 1 and 2 hold the same bytes.
ImageParts == <<JpegLarge, JpegLarge, PngLarge>>

\* A presentation is loaded and translated: create_translated_presentation_v2
\* of ppt_generator.py, or the one of reinsert_v2.py (no callback, no batches).
InitPresentation(entries, translators, kinds, sizes, batch_sizes, callbacks) ==
    /\ InitCall
    /\ entry \in entries
    /\ translator \in translators
    /\ api_key \in BOOLEAN
    /\ texts_to_translate = <<>>
    /\ parts = ImageParts
    /\ archive = <<>>
    /\ \E n \in sizes :
          /\ slides = Presentation(n)
          /\ paragraphs \in IF n <= MaxParas THEN [1..n -> kinds]
                            ELSE {[i \in 1..n |-> ParaHello]}
    /\ batch_size \in IF entry = "reinsert_v2" THEN {0} ELSE batch_sizes
    /\ callback \in IF entry = "reinsert_v2" THEN {"none"} ELSE callbacks
    /\ input_file = [paragraphs |-> paragraphs, parts |-> parts]
    /\ NoBlockInputs

\* translate_texts is called with a list of texts.
InitTranslateTexts ==
    /\ InitCall
    /\ entry = "translate_texts"
    /\ translator = "free"
    /\ api_key \in BOOLEAN
    /\ texts_to_translate \in SeqsUpTo(TextSet, MaxParas)
    /\ slides = <<>>
    /\ paragraphs = <<>>
    /\ parts = <<>>
    /\ archive = <<>>
    /\ batch_size = 0
    /\ callback = "none"
    /\ input_file = [paragraphs |-> paragraphs, parts |-> parts]
    /\ NoBlockInputs

\* Any translator, a callback that returns, paragraphs of one run.
Init ==
    \/ InitPresentation({"create_v2"}, {"free"}, {ParaBlank, ParaHello, ParaWorld},
                        0..MaxParas, 1..MaxBatch, {"returns"})
    \/ InitTranslateTexts

\* The entries an archive may hold.
EntrySet ==
    {Entry("ppt/media/image1.jpeg", TRUE, JpegLarge),
     Entry("ppt/media/image2.png", TRUE, PngLarge),
     Entry("ppt/media/image3.jpg", TRUE, JpegTight),
     Entry("ppt/media/image4.png", TRUE, BadImage),
     Entry("ppt/media/image6.png", TRUE, PngGrows),
     Entry("ppt/media/image7.jpeg", TRUE, JpegLarge),
     Entry("ppt/media/image5.gif", FALSE, GifImage),
     Entry("docProps/thumbnail.jpeg", FALSE, JpegLarge),
     Entry("ppt/slides/slide1.xml", FALSE, Blob("XML", 7, 7))}

\* zin.namelist(): an archive names each of its entries once.
DistinctNames(a) == \A j, k \in 1..Len(a) : a[j].name = a[k].name => j = k

\* compress_images_in_presentation is called on a loaded presentation, or
\* optimize_pptx_media_zip on an archive.
InitMedia(callbacks) ==
    /\ InitCall
    /\ entry \in {"compress", "zip"}
    /\ translator = "identity"
    /\ api_key = TRUE
    /\ texts_to_translate = <<>>
    /\ batch_size = 0
    /\ callback \in callbacks
    /\ IF entry = "compress"
       THEN /\ slides = Presentation(0)
            /\ paragraphs = <<>>
            /\ parts \in [1..MaxParts -> BlobSet]
            /\ archive = <<>>
       ELSE /\ slides = <<>>
            /\ paragraphs = <<>>
            /\ parts = <<>>
            /\ archive \in {a \in SeqsUpTo(EntrySet, MaxEntries) : DistinctNames(a)}
    /\ input_file = [paragraphs |-> paragraphs, parts |-> parts]
    /\ NoBlockInputs

\* A deterministic translator, any callback, and the large document too.
InitStub ==
    \/ InitPresentation({"create_v2", "reinsert_v2"}, Stubs, ParagraphSet,
                        (0..MaxParas) \cup {LargeN}, 0..MaxBatch,
                        {"none", "returns", "raises"})
    \/ InitMedia({"none", "returns", "raises"})

\* Translations over stubs, for the runs in which the library may raise.
InitFault ==
    InitPresentation({"create_v2", "reinsert_v2"}, Stubs, {ParaHello, ParaWorld, ParaTwoRuns},
                     0..MaxParas, 1..MaxBatch, {"none", "returns"})

\* ---------------------------------------------------------------- actions
\* create_translated_presentation_v2 up to the translation loop: load, the
\* first progress event, the collection loop, and the event that follows it.
Collect ==
    /\ pc = "start"
    /\ entry \in {"create_v2", "reinsert_v2"}
    /\ \E raised \in MayRaise :
          IF raised /\ ~LogSwallows(raised)
          THEN /\ Fail("CALLBACK")
               /\ UNCHANGED <<paragraph_infos, texts_to_translate, progress, cbRaised>>
          ELSE IF CollectRaises(slides, paragraphs, entry = "create_v2")
          THEN /\ Fail("FONT_READ")
               /\ progress' = Deliver(progress, <<Event("collect", Thousandths(20, 0))>>)
               /\ cbRaised' = (cbRaised \/ raised)
               /\ UNCHANGED <<paragraph_infos, texts_to_translate>>
          ELSE /\ paragraph_infos' = CollectParagraphs(slides, paragraphs, entry = "create_v2")
               /\ texts_to_translate' =
                      [i \in 1..Len(paragraph_infos') |-> paragraph_infos'[i].original_text]
               /\ cbRaised' = (cbRaised \/ raised)
               /\ err' = err
               /\ LET total == Len(texts_to_translate')
                  IN  IF total = 0
                      THEN /\ pc' = IF entry = "create_v2" THEN "complete" ELSE "save"
                           /\ progress' = Deliver(progress,
                                  <<Event("collect", Thousandths(20, total))>>)
                      ELSE /\ pc' = "batch"
                           /\ progress' = Deliver(progress,
                                  <<Event("collect", Thousandths(20, total)),
                                    Event("analysed", Clamp(Thousandths(50, total), total))>>)
    /\ UNCHANGED <<inputs, app, stack, walked, docs, markdown, faults, frame, ghosts, zip, paragraphs, parts, translated_texts,
                   start, idx, snippet, saved, returned>>

\* A faulty variant: the empty list goes the way of any other.
ReturnsNever(list) == FALSE

\* if not texts: return []
ReturnsAtOnce(list) == list = <<>>

\* The head of translate_texts, up to its first request: the empty list is
\* returned at once; else the client is built (which fails without an API
\* key), the texts are de-duplicated and the messages are written.
EnterTranslateTexts(list, empty_pc) ==
    /\ texts' = list
    /\ content' = NoContent
    /\ IF ReturnsAtOnce(list)
       THEN /\ pc' = empty_pc
            /\ UNCHANGED <<unique_texts, back_refs, attempt, messages, clients, err>>
       ELSE IF ~api_key
       THEN /\ Fail("NO_API_KEY")
            /\ UNCHANGED <<unique_texts, back_refs, attempt, messages, clients>>
       ELSE /\ clients' = clients + 1
            /\ unique_texts' = Dedup(list).unique_texts
            /\ back_refs' = Dedup(list).back_refs
            /\ attempt' = 0
            /\ messages' = <<"system", "user">>
            /\ pc' = "request"
            /\ err' = err

\* A faulty variant: every batch is sliced from the head of the list.
BatchFromHead(list, from, size) == SubSeq(list, 1, Min(size, Len(list)))

\* batch = texts_to_translate[start:end]
Batch(list, from, size) == SubSeq(list, from + 1, Min(from + size, Len(list)))

\* One turn of the translation loop up to the request: the batch, the event
\* before it, and the call of translate_texts.
BatchPrepare ==
    /\ pc = "batch"
    /\ \E raised \in MayRaise :
          LET total == Len(texts_to_translate)
              end == Min(start + SafeBatchSize, total)
          IN  IF raised /\ ~LogSwallows(raised)
              THEN /\ Fail("CALLBACK")
                   /\ UNCHANGED <<frame, clients, progress, cbRaised>>
              ELSE /\ progress' = Deliver(progress,
                          <<Event("request", Clamp(PreRatio(end, total), total))>>)
                   /\ cbRaised' = (cbRaised \/ raised)
                   /\ EnterTranslateTexts(Batch(texts_to_translate, start, SafeBatchSize),
                                          "batch")
    /\ UNCHANGED <<inputs, app, stack, walked, docs, markdown, faults, zip, paragraphs, parts, paragraph_infos, texts_to_translate,
                   translated_texts, start, idx, requests, answers, mismatch_at,
                   snippet, saved, returned>>

\* translate_texts called on its own.
CallTranslateTexts ==
    /\ pc = "start"
    /\ entry = "translate_texts"
    /\ EnterTranslateTexts(texts_to_translate, "done")
    /\ returned' = IF texts_to_translate = <<>> THEN TextList(<<>>) ELSE returned
    /\ UNCHANGED <<inputs, app, stack, walked, docs, markdown, faults, zip, paragraphs, parts, paragraph_infos, texts_to_translate,
                   translated_texts, start, idx, progress, cbRaised, requests,
                   answers, mismatch_at, snippet, saved>>

\* What follows the return of translate_texts in its caller: in the
\* translation loop the event after the batch, extend, and the next turn of
\* the loop or, after the last one, the event that opens the reinsertion.
ReturnToCaller(out, raised) ==
    IF entry = "translate_texts"
    THEN /\ returned' = TextList(out)
         /\ pc' = "done"
         /\ err' = err
         /\ UNCHANGED <<translated_texts, start, progress, cbRaised>>
    ELSE IF raised /\ ~LogSwallows(raised)
    THEN /\ Fail("CALLBACK")
         /\ UNCHANGED <<translated_texts, start, progress, cbRaised, returned>>
    ELSE LET total == Len(texts_to_translate)
             end == Min(start + SafeBatchSize, total)
             last == start + SafeBatchSize >= total
         IN  /\ translated_texts' = translated_texts \o out
             /\ start' = start + SafeBatchSize
             /\ progress' = Deliver(progress,
                    <<Event("response", Clamp(BatchRatio(end, total), total))>>
                    \o (IF last THEN <<Event("reinsert", Clamp(Thousandths(900, total), total))>>
                        ELSE <<>>))
             /\ cbRaised' = (cbRaised \/ raised)
             /\ pc' = IF last THEN "reinsert" ELSE "batch"
             /\ err' = err
             /\ returned' = returned

\* What one attempt makes of the response: the ValueError of the decoder, or
\* the one raised for an array of another length ("" when there is none).
ResponseError(body, payload) ==
    IF DecodeError(body) # "" THEN DecodeError(body)
    ELSE IF Len(Decoded(body)) # Len(payload) THEN "LENGTH_MISMATCH"
    ELSE ""

\* A faulty variant: a length mismatch is retried like a parse failure.
HandlerRetriesAll(error, tries) ==
    IF LastAttempt(tries) THEN "PARSE_ERROR" ELSE "retry"

\* except ValueError as exc: a length mismatch is raised as a RuntimeError at
\* once, another error at the last attempt, and else the loop goes on with a
\* corrective message.
Handler(error, tries) ==
    IF error = "LENGTH_MISMATCH" THEN "LENGTH_MISMATCH"
    ELSE IF LastAttempt(tries) THEN "PARSE_ERROR"
    ELSE "retry"

Corrective == "system: your previous reply was not valid JSON"

\* One attempt of translate_texts: the request, the translator's response and
\* what the code does with it.
Request ==
    /\ pc = "request"
    /\ \E raw \in Responses(translator, unique_texts), raised \in MayRaise :
          LET body == Content(raw)
              error == ResponseError(body, unique_texts)
          IN  /\ requests' = Append(requests,
                     [texts |-> texts, payload |-> unique_texts, messages |-> messages,
                      start |-> start])
              /\ mismatch_at' = IF DecodeError(body) = ""
                                     /\ Len(body.result) # Len(unique_texts)
                                 THEN Len(requests) + 1 ELSE mismatch_at
              /\ IF error = ""
                 THEN /\ ReturnToCaller(Rebuild(Decoded(body), back_refs), raised)
                      /\ answers' = Append(answers,
                             [texts |-> texts, payload |-> unique_texts,
                              decoded |-> Decoded(body), start |-> start])
                      /\ content' = NoContent
                      /\ UNCHANGED <<attempt, messages, snippet>>
                 ELSE IF Handler(error, attempt) = "retry"
                 THEN /\ attempt' = attempt + 1
                      /\ messages' = Append(messages, Corrective)
                      /\ content' = body
                      /\ UNCHANGED <<pc, err, translated_texts, start, progress,
                                     cbRaised, returned, answers, snippet>>
                 ELSE /\ Fail(Handler(error, attempt))
                      /\ snippet' = IF Handler(error, attempt) = "PARSE_ERROR"
                                     THEN Snippet(body) ELSE snippet
                      /\ content' = body
                      /\ UNCHANGED <<translated_texts, start, progress, cbRaised,
                                     returned, answers, attempt, messages>>
    /\ UNCHANGED <<inputs, app, stack, walked, docs, markdown, faults, zip, paragraphs, parts, paragraph_infos, texts_to_translate,
                   texts, unique_texts, back_refs, idx, clients, saved>>

\* A faulty variant: the run is added to the runs that were there.
ReplaceRunsKeeps(runs, text) == Append(runs, Run(text))

\* paragraph.clear(); new_run = paragraph.add_run(); new_run.text = text
ReplaceRuns(runs, text) == <<Run(text)>>

\* _apply_font_properties(new_run, original_font_props): the new run is the
\* last run of the paragraph.
RestoreFont(runs, font_props, failing) ==
    [runs EXCEPT ![Len(runs)] = SetFont(@, font_props, failing)]

\* if not translated_text or not isinstance(translated_text, str):
\*     translated_text = para_info.original_text
TextToWrite(translated_text, original_text) ==
    IF translated_text = <<>> THEN original_text ELSE translated_text

\* zip(paragraph_infos, translated_texts)
Pairs == Min(Len(paragraph_infos), Len(translated_texts))

\* The library calls of the try block, in their order; "none": none raises.
FaultPoints == {"none", "clear", "add_run", "text"}

\* The try block of the reinsertion loop, when the library call `at` raises:
\* the statements before it have run, `except Exception: continue` drops the
\* rest.
WriteParagraph(runs, text, font_props, at, failing) ==
    IF at = "clear" THEN runs
    ELSE IF at = "add_run" THEN <<>>
    ELSE IF at = "text" THEN <<Run(<<>>)>>
    ELSE RestoreFont(ReplaceRuns(runs, text), font_props, failing)

\* The setters that may raise together in one _apply_font_properties call.
FailingSets == {{}, SetterProps} \cup {{p} : p \in SetterProps}

\* One turn of the reinsertion loop, in which a library call of points and
\* the font setters of a set of failing_sets may raise.
Reinsert(points, failing_sets) ==
    /\ pc = "reinsert"
    /\ idx < Pairs
    /\ \E raised \in MayRaise, at \in points, failing \in failing_sets :
          LET para_info == paragraph_infos[idx + 1]
              total_apply == Len(paragraph_infos)
              logs == entry = "create_v2" /\ total_apply > 0
                        /\ (idx + 1) % ApplyLogEvery = 0
          IN  IF logs /\ raised /\ ~LogSwallows(raised)
              THEN /\ Fail("CALLBACK")
                   /\ UNCHANGED <<paragraphs, idx, progress, cbRaised, faults>>
              ELSE /\ progress' = IF logs
                                  THEN Deliver(progress,
                                         <<Event("reinserting",
                                                 Clamp(ApplyRatio(idx + 1, total_apply),
                                                       total_apply))>>)
                                  ELSE progress
                   /\ cbRaised' = (cbRaised \/ (logs /\ raised))
                   /\ paragraphs' = [paragraphs EXCEPT ![para_info.paragraph_ref] =
                          WriteParagraph(@, TextToWrite(translated_texts[idx + 1],
                                                        para_info.original_text),
                                         para_info.first_run_font, at, failing)]
                   /\ faults' = IF at = "none" /\ failing = {} THEN faults
                                ELSE Append(faults, [idx |-> idx + 1, at |-> at,
                                                     failing |-> failing])
                   /\ idx' = idx + 1
                   /\ pc' = IF idx + 1 < Pairs THEN "reinsert"
                            ELSE IF entry = "create_v2" THEN "image" ELSE "save"
                   /\ err' = err
    /\ UNCHANGED <<inputs, app, stack, walked, docs, markdown, frame, ghosts, zip, parts, paragraph_infos,
                   texts_to_translate, translated_texts, start, snippet, saved, returned>>

\* The reinsertion loop over a library that does not raise.
ReinsertParagraph == Reinsert({"none"}, {{}})

\* The reinsertion loop over a library whose calls may raise.
ReinsertFaulty == Reinsert(FaultPoints, {{}})

\* The reinsertion loop over runs whose font setters may raise.
ReinsertFont == Reinsert({"none"}, FailingSets)

\* The events of an image optimization within a translation of total texts.
ImageEvents(ratios, total) ==
    [k \in 1..Len(ratios) |-> Event("images", Thousandths(ratios[k], total))]

\* if image_opt: the optional image optimization, between its two _log events.
OptimizeImages ==
    /\ pc = "image"
    /\ \E image_opt \in {"none", "set"}, raised \in MayRaise :
          LET total == Len(texts_to_translate)
              st == compress_images_in_presentation(slides, parts)
          IN  IF image_opt = "none"
              THEN /\ pc' = "complete"
                   /\ UNCHANGED <<parts, progress, cbRaised, err>>
              ELSE IF raised /\ ~(LogSwallows(raised) /\ CompressSwallows(raised))
              THEN /\ Fail("CALLBACK")
                   /\ UNCHANGED <<parts, progress, cbRaised>>
              ELSE /\ parts' = st.parts
                   /\ progress' = Deliver(progress,
                          <<Event("images", Clamp(Thousandths(990, total), total))>>
                          \o ImageEvents(st.ratios, total)
                          \o <<Event("images", Clamp(Thousandths(999, total), total))>>)
                   /\ cbRaised' = (cbRaised \/ raised)
                   /\ pc' = "complete"
                   /\ err' = err
    /\ UNCHANGED <<inputs, app, stack, walked, docs, markdown, faults, frame, ghosts, zip, paragraphs, paragraph_infos,
                   texts_to_translate, translated_texts, start, idx, snippet, saved,
                   returned>>

\* _log("...", ratio=1.0), which precedes prs.save.
Complete ==
    /\ pc = "complete"
    /\ \E raised \in MayRaise :
          IF raised /\ ~LogSwallows(raised)
          THEN /\ Fail("CALLBACK")
               /\ UNCHANGED <<progress, cbRaised>>
          ELSE /\ progress' = Deliver(progress,
                      <<Event("complete", Clamp(One(Len(texts_to_translate)),
                                                Len(texts_to_translate)))>>)
               /\ cbRaised' = (cbRaised \/ raised)
               /\ pc' = "save"
               /\ err' = err
    /\ UNCHANGED <<inputs, app, stack, walked, docs, markdown, faults, frame, ghosts, zip, paragraphs, parts, paragraph_infos,
                   texts_to_translate, translated_texts, start, idx, snippet, saved,
                   returned>>

\* translated_word_count = sum(len(text.split()) for text in translated_texts)
\*                         if translated_texts else word_count_source
TranslatedWordCount ==
    IF translated_texts # <<>> THEN SumWords(translated_texts)
    ELSE SumWords(texts_to_translate)

\* prs.save(output_pptx) and the return.
Save ==
    /\ pc = "save"
    /\ saved' = [written |-> TRUE, paragraphs |-> paragraphs, parts |-> parts]
    /\ returned' = IF entry = "reinsert_v2" THEN NoValue
                   ELSE IF texts_to_translate = <<>> THEN Stats(Len(slides), 0)
                   ELSE Stats(Len(slides), TranslatedWordCount)
    /\ pc' = "done"
    /\ UNCHANGED <<inputs, app, stack, walked, docs, markdown, faults, frame, ghosts, zip, paragraphs, parts, paragraph_infos,
                   texts_to_translate, translated_texts, start, idx, progress,
                   cbRaised, err, snippet>>

\* compress_images_in_presentation called on its own, on a loaded presentation.
CallCompress ==
    /\ pc = "start"
    /\ entry = "compress"
    /\ \E raised \in MayRaise :
          LET st == compress_images_in_presentation(slides, parts)
          IN  IF raised /\ ~CompressSwallows(raised)
              THEN /\ Fail("CALLBACK")
                   /\ UNCHANGED <<parts, progress, cbRaised, returned>>
              ELSE /\ parts' = st.parts
                   /\ progress' = Deliver(progress, ImageEvents(st.ratios, 0))
                   /\ cbRaised' = (cbRaised \/ raised)
                   /\ returned' = ImageStats(st.stats)
                   /\ pc' = "done"
                   /\ err' = err
    /\ UNCHANGED <<inputs, app, stack, walked, docs, markdown, faults, frame, ghosts, zip, paragraphs, paragraph_infos,
                   texts_to_translate, translated_texts, start, idx, snippet, saved>>

\* total_media = sum(1 for n in namelist if ...)
TotalMedia == Cardinality({k \in 1..Len(archive) : archive[k].media})

\* optimize_pptx_media_zip up to its loop: the first event, and the archives
\* are opened.
ZipStart ==
    /\ pc = "start"
    /\ entry = "zip"
    /\ \E raised \in MayRaise :
          IF raised /\ ~ZipSwallows(raised)
          THEN /\ Fail("CALLBACK")
               /\ UNCHANGED <<progress, cbRaised>>
          ELSE /\ progress' = Deliver(progress,
                      <<Event("scan", Thousandths(10, TotalMedia))>>)
               /\ cbRaised' = (cbRaised \/ raised)
               /\ pc' = "zip"
               /\ err' = err
    /\ UNCHANGED <<inputs, app, stack, walked, docs, markdown, faults, frame, ghosts, zip, paragraphs, parts, paragraph_infos,
                   texts_to_translate, translated_texts, start, idx, snippet, saved,
                   returned>>

\* ratio = 0.02 + 0.96 * (processed / total_media)
ZipRatio(processed, total_media) == 20 * total_media + 960 * processed

\* A faulty variant: every entry that can be recompressed is.
ZipWriteAnyImage(e) ==
    IF Smaller(_recompress_blob(e.data), e.data)
    THEN Entry(e.name, e.media, _recompress_blob(e.data))
    ELSE e

\* zout.writestr(name, ...): what is written for an entry of the input.
ZipWrite(e) ==
    IF e.media /\ Smaller(_recompress_blob(e.data), e.data)
    THEN Entry(e.name, e.media, _recompress_blob(e.data))
    ELSE e

\* One entry of the input archive: a media image is recompressed and written
\* shorter or as it was, any other entry is written as it was.
ZipEntry ==
    /\ pc = "zip"
    /\ idx < Len(archive)
    /\ \E raised \in MayRaise :
          LET e == archive[idx + 1]
              new_blob == _recompress_blob(e.data)
              processed == stats.media + 1
          IN  IF e.media /\ raised /\ ~ZipSwallows(raised)
              THEN /\ Fail("CALLBACK")
                   /\ UNCHANGED <<zout, stats, idx, progress, cbRaised>>
              ELSE /\ idx' = idx + 1
                   /\ pc' = pc
                   /\ err' = err
                   /\ IF e.media
                      THEN /\ zout' = Append(zout, ZipWrite(e))
                           /\ stats' =
                                  IF Smaller(new_blob, e.data)
                                  THEN [stats EXCEPT !.media = @ + 1, !.optimized = @ + 1,
                                           !.bytes_saved = @ + (e.data.size - new_blob.size)]
                                  ELSE [stats EXCEPT !.media = @ + 1]
                           /\ progress' = Deliver(progress,
                                  <<Event("media", ZipRatio(processed, TotalMedia))>>)
                           /\ cbRaised' = (cbRaised \/ raised)
                      ELSE /\ zout' = Append(zout, ZipWrite(e))
                           /\ UNCHANGED <<stats, progress, cbRaised>>
    /\ UNCHANGED <<inputs, app, stack, walked, docs, markdown, faults, frame, ghosts, paragraphs, parts, paragraph_infos,
                   texts_to_translate, translated_texts, start, snippet, saved,
                   returned>>

\* The archives are closed and the statistics returned.
ZipReturn ==
    /\ pc = "zip"
    /\ idx = Len(archive)
    /\ returned' = ImageStats(stats)
    /\ pc' = "done"
    /\ UNCHANGED <<inputs, app, stack, walked, docs, markdown, faults, frame, ghosts, zip, paragraphs, parts, paragraph_infos,
                   texts_to_translate, translated_texts, start, idx, progress,
                   cbRaised, err, snippet, saved>>

NextPresentation ==
    \/ Collect
    \/ BatchPrepare
    \/ Request
    \/ ReinsertParagraph
    \/ OptimizeImages
    \/ Complete
    \/ Save

NextMedia ==
    \/ CallCompress
    \/ ZipStart
    \/ ZipEntry
    \/ ZipReturn

Next == NextPresentation \/ CallTranslateTexts

Spec == Init /\ [][Next]_vars

SpecStub == InitStub /\ [][NextPresentation \/ NextMedia]_vars

\* The translation over stubs and a library whose write calls may raise.
NextFault ==
    \/ Collect
    \/ BatchPrepare
    \/ Request
    \/ ReinsertFaulty
    \/ OptimizeImages
    \/ Complete
    \/ Save

SpecFault == InitFault /\ [][NextFault]_vars

\* Translations of documents of at most MaxFontParas paragraphs, some with a
\* malformed font attribute, over new runs whose font setters may raise.
MaxFontParas == 2
InitFont ==
    InitPresentation({"create_v2", "reinsert_v2"}, {"dict"},
                     {ParaHello, ParaWorld, ParaBadSize, ParaBadBold, ParaBadColor},
                     0..MaxFontParas, {1}, {"none"})

NextFont ==
    \/ Collect
    \/ BatchPrepare
    \/ Request
    \/ ReinsertFont
    \/ OptimizeImages
    \/ Complete
    \/ Save

SpecFont == InitFont /\ [][NextFont]_vars

\* ------------------------------------------------- block-level pipeline
\* The subsequence of seq at the positions in S.
RECURSIVE Select(_, _)
Select(seq, S) ==
    IF seq = <<>> THEN <<>>
    ELSE LET rest == Select(Tail(seq), {i - 1 : i \in S \ {1}})
         IN  IF 1 \in S THEN <<Head(seq)>> \o rest ELSE rest

\* The blocks of the document model.  A NoteBlock has no shape_id attribute.
TextBlock(shape_id, lines, indent_levels) ==
    [type |-> "text", shape_id |-> shape_id, lines |-> lines,
     indent_levels |-> indent_levels]
TableBlock(shape_id, rows, has_header) ==
    [type |-> "table", shape_id |-> shape_id, rows |-> rows, has_header |-> has_header]
FigureBlock(shape_id, figure_type, title) ==
    [type |-> "figure", shape_id |-> shape_id, figure_type |-> figure_type,
     title |-> title]
NoteBlock(text) == [type |-> "note", text |-> text]
SlideDoc(slide_index, title, blocks) ==
    [slide_index |-> slide_index, title |-> title, blocks |-> blocks]

\* A shape as the block-level functions read and write it (kind "title": the
\* title placeholder, which shapes.title returns): the paragraphs of
\* its text frame (text, indent level, font size of the run; 0: not set),
\* the cells of its table (text, font size), the title of its chart.  fault
\* names the property whose read raises ("none": the shape is sound).
Para(text, level, size) == [text |-> text, level |-> level, size |-> size]
Cell(text) == [text |-> text, size |-> 0]
BlockShape(kind, id, paras, rows, title, shapes, fault) ==
    [kind |-> kind, shape_id |-> id, paras |-> paras, rows |-> rows, title |-> title,
     shapes |-> shapes, fault |-> fault]
TextBox(id, paras) == BlockShape("text_box", id, paras, <<>>, <<>>, <<>>, "none")
AutoShape(id, paras) == BlockShape("auto_shape", id, paras, <<>>, <<>>, <<>>, "none")
Placeholder(id, paras) == BlockShape("placeholder", id, paras, <<>>, <<>>, <<>>, "none")
TitleShape(id, paras) == BlockShape("title", id, paras, <<>>, <<>>, <<>>, "none")
Table(id, rows) == BlockShape("table", id, <<>>, rows, <<>>, <<>>, "none")
Picture(id) == BlockShape("picture", id, <<>>, <<>>, <<>>, <<>>, "none")
Chart(id, title) == BlockShape("chart", id, <<>>, <<>>, title, <<>>, "none")
Group(shapes) == BlockShape("group", 0, <<>>, <<>>, <<>>, shapes, "none")

\* hasattr(shape, "text_frame"): auto shapes, text boxes and placeholders.
HasTextFrame(shape) == shape.kind \in {"text_box", "auto_shape", "placeholder", "title"}

\* shorten_line(text, max_chars): a line within the budget is kept; a longer
\* line goes to the rephraser, whose answer fits the budget ("fits") or is
\* best effort and still too long ("overlong"); when the rephrasing call fails
\* ("fails") the line is cut at the character limit.
Rephrasers == {"fits", "overlong", "fails"}
shorten_line(text, max_chars, answer) ==
    IF Len(text) <= max_chars THEN text
    ELSE IF answer = "fits" THEN SubSeq(text, Len(text) - max_chars + 1, Len(text))
    ELSE IF answer = "overlong" THEN SubSeq(text, 1, max_chars + 1)
    ELSE SubSeq(text, 1, max_chars)

\* OverflowPolicy
OverflowPolicy(max_chars_per_paragraph, min_font_size_pt, reduce_step_pt) ==
    [max_chars_per_paragraph |-> max_chars_per_paragraph,
     min_font_size_pt |-> min_font_size_pt, reduce_step_pt |-> reduce_step_pt]

\* size = run.font.size.pt if run.font.size and run.font.size.pt else 18
DefaultFontPt == 18

\* Pt(points): a font size as the document holds it, in hundredths of a
\* point (0: the run has no size of its own).
Pt(points) == points * 100

\* int(run.font.size.pt): the whole points of a size.
WholePoints(size) == size \div 100

\* _reduce_font_size, for one run: new_size = max(min_pt, int(size) - step_pt),
\* run.font.size = Pt(new_size)
_reduce_font_size(size, min_pt, step_pt) ==
    Pt(Max(min_pt, (IF size = 0 THEN DefaultFontPt ELSE WholePoints(size)) - step_pt))

\* _reduce_font_size: for p in tf.paragraphs: for run in p.runs.
ReduceFrame(shape, min_pt, step_pt) ==
    [shape EXCEPT !.paras =
        [i \in 1..Len(shape.paras) |->
            [shape.paras[i] EXCEPT !.size = _reduce_font_size(@, min_pt, step_pt)]]]

\* A faulty variant: the lines are written as they come.
ApplyTextUnshortened(shape, lines, pol, answer) ==
    [shape EXCEPT !.paras =
        [i \in 1..Max(1, Len(lines)) |->
            Para(IF lines = <<>> THEN <<>> ELSE lines[i],
                 IF i = 1 /\ shape.paras # <<>> THEN shape.paras[1].level ELSE 0,
                 0)]]

\* _apply_text_to_shape: tf.clear() keeps the first paragraph without its
\* runs; p.text = text writes one run without properties (none for "").
_apply_text_to_shape(shape, lines, pol, answer) ==
    LET max_chars == pol.max_chars_per_paragraph
        shortened == [i \in 1..Len(lines) |-> shorten_line(lines[i], max_chars, answer)]
        safe_lines == IF shortened = <<>> THEN << <<>> >> ELSE shortened
        overflow == \E i \in 1..Len(safe_lines) : Len(safe_lines[i]) > max_chars
    IN  [shape EXCEPT !.paras =
            [i \in 1..Len(safe_lines) |->
                Para(safe_lines[i],
                     IF i = 1 /\ shape.paras # <<>> THEN shape.paras[1].level ELSE 0,
                     IF overflow /\ safe_lines[i] # <<>>
                     THEN _reduce_font_size(0, pol.min_font_size_pt, pol.reduce_step_pt)
                     ELSE 0)]]

\* _apply_text_to_table: the cells inside the grid of the table are written.
_apply_text_to_table(shape, rows, pol, answer) ==
    [shape EXCEPT !.rows =
        [r \in 1..Len(shape.rows) |->
            [c \in 1..Len(shape.rows[r]) |->
                IF r <= Len(rows) /\ c <= Len(rows[r])
                THEN Cell(shorten_line(rows[r][c], pol.max_chars_per_paragraph, answer))
                ELSE shape.rows[r][c]]]]

\* slide_idx in translation_map
InTranslationMap(translated, slide_idx) ==
    \E k \in 1..Len(translated) : translated[k].slide_index = slide_idx

\* A faulty variant: the blocks of the last document, whatever its slide.
SlideMapAnySlide(translated, slide_idx) == translated[Len(translated)].blocks

\* translation_map[slide_idx]: the blocks of the document of that slide; a
\* later document replaces an earlier one of the same slide.
SlideMap(translated, slide_idx) ==
    LET ks == {k \in 1..Len(translated) : translated[k].slide_index = slide_idx}
    IN  translated[CHOOSE k \in ks : \A j \in ks : j <= k].blocks

\* slide_map.get(shape_id): the last block of that id among the blocks that
\* have a shape_id.
NoBlock == [type |-> "none"]
BlockOf(blocks, shape_id) ==
    LET ks == {k \in 1..Len(blocks) :
                  blocks[k].type # "note" /\ blocks[k].shape_id = shape_id}
    IN  IF ks = {} THEN NoBlock
        ELSE blocks[CHOOSE k \in ks : \A j \in ks : j <= k]

\* The body of the loop over _iter_shapes(slide.shapes), for one shape.
CopyShape(shape, blocks, pol, answer) ==
    LET block == BlockOf(blocks, shape.shape_id)
    IN  IF block.type = "text" /\ HasTextFrame(shape)
        THEN _apply_text_to_shape(shape, block.lines, pol, answer)
        ELSE IF block.type = "table" /\ shape.kind = "table"
        THEN _apply_text_to_table(shape, block.rows, pol, answer)
        ELSE shape

\* The loop over _iter_shapes(slide.shapes): the shapes are written in place,
\* the groups are walked through.
RECURSIVE CopyShapes(_, _, _, _)
CopyShapes(shapes, blocks, pol, answer) ==
    [k \in 1..Len(shapes) |->
        IF shapes[k].kind = "group"
        THEN [shapes[k] EXCEPT !.shapes = CopyShapes(@, blocks, pol, answer)]
        ELSE CopyShape(shapes[k], blocks, pol, answer)]

\* create_translated_copy
CreateTranslatedCopy ==
    /\ pc = "start"
    /\ entry = "copy"
    /\ saved' = [written |-> TRUE,
                 slides |-> [k \in 1..Len(slides) |->
                               IF ~InTranslationMap(translated_docs, k - 1) THEN slides[k]
                               ELSE [slides[k] EXCEPT !.shapes =
                                       CopyShapes(@, SlideMap(translated_docs, k - 1),
                                                  policy, rephraser)]]]
    /\ pc' = "done"
    /\ UNCHANGED <<inputs, app, stack, walked, docs, markdown, faults, frame, ghosts, zip, paragraphs, parts, paragraph_infos,
                   texts_to_translate, translated_texts, start, idx, progress,
                   cbRaised, err, snippet, returned>>

\* The texts of the block-level documents.
Long == <<"Revenue", SP, "up">>
Region == <<"Region">>

\* The document create_translated_copy loads: slide 1 holds a text box and, in
\* nested groups, a table of two rows and columns and a picture; slide 2 a
\* text box of the same id as the one of slide 1, and an auto shape.
CopyDeck ==
    << Slide(<<TextBox(2, <<Para(Hello, 1, Pt(24)), Para(World, 0, 0)>>),
               Group(<<Group(<<Table(3, << <<Cell(Region), Cell(Hello)>>,
                                           <<Cell(World), Cell(Long)>> >>)>>),
                       Picture(4)>>)>>, 0),
       Slide(<<TextBox(2, <<Para(World, 0, 0)>>),
               AutoShape(5, <<Para(Hello, 0, Pt(12))>>)>>, 0) >>

\* The blocks a translated document of slide 1, of slide 2 and of a slide the
\* document does not have may hold; a translated document holds some of them,
\* in this order.
CandidateBlocks(slide_index) ==
    IF slide_index = 0
    THEN <<TextBlock(2, <<Long, Hello>>, <<0, 0>>),
           TableBlock(3, << <<Long>>, <<Hello, World, Long>>, <<Hello>> >>, TRUE),
           FigureBlock(4, "image", <<>>),
           TextBlock(9, <<Long>>, <<0>>),
           NoteBlock(Long)>>
    ELSE IF slide_index = 1
    THEN <<TextBlock(5, <<>>, <<>>),
           TextBlock(3, <<Hello>>, <<0>>),
           TableBlock(5, << <<Long>> >>, TRUE)>>
    ELSE <<TextBlock(2, <<Hello>>, <<0>>)>>

DocSet(slide_index) ==
    {SlideDoc(slide_index, Hello, Select(CandidateBlocks(slide_index), S)) :
        S \in SUBSET (1..Len(CandidateBlocks(slide_index)))}

\* The policies: the budget is one or two symbols; the floor is reached by one
\* step, or not.
PolicySet == {OverflowPolicy(2, 12, 1), OverflowPolicy(1, 12, 8)}

\* create_translated_copy on CopyDeck: a translated document for each slide or
\* none, one for a slide that is not there or none, and possibly a second
\* document for slide 1.
InitCopy ==
    /\ InitCall
    /\ entry = "copy"
    /\ slides = CopyDeck
    /\ \E d0 \in DocSet(0), d1 \in DocSet(1), d2 \in DocSet(2), use \in SUBSET (1..4) :
          translated_docs = Select(<<d2, d0, d1, SlideDoc(0, World, <<TextBlock(5, <<Hello>>, <<0>>)>>)>>, use)
    /\ policy \in PolicySet
    /\ rephraser \in Rephrasers
    /\ options = "none"
    /\ batch_size = 1
    /\ callback = "none"
    /\ translator = "identity"
    /\ api_key = TRUE
    /\ archive = <<>>
    /\ input_file = [paragraphs |-> <<>>, parts |-> <<>>]
    /\ paragraphs = <<>>
    /\ parts = <<>>
    /\ texts_to_translate = <<>>

SpecCopy == InitCopy /\ [][CreateTranslatedCopy]_vars

\* _reduce_font_size on its own.  A text frame holds at most MaxRuns runs,
\* each in a paragraph of its own; a run has no size of its own (as the runs
\* _apply_text_to_shape has just written) or a size below, at or above the
\* floor, in whole or in half points.  The floor lies below or above the
\* default size.
MaxRuns == 2
SizeSet == {0, Pt(10), 1050, Pt(12), 1250, Pt(18), Pt(24)}
ReducePolicySet == {OverflowPolicy(1, 12, 1), OverflowPolicy(1, 12, 8), OverflowPolicy(1, 20, 1)}
InitReduce ==
    /\ InitCall
    /\ entry = "reduce"
    /\ \E n \in 1..MaxRuns : \E sizes \in [1..n -> SizeSet] :
          slides = <<Slide(<<TextBox(2, [i \in 1..n |-> Para(Long, 0, sizes[i])])>>, 0)>>
    /\ policy \in ReducePolicySet
    /\ translated_docs = <<>>
    /\ rephraser = "none"
    /\ options = "none"
    /\ batch_size = 1
    /\ callback = "none"
    /\ translator = "identity"
    /\ api_key = TRUE
    /\ archive = <<>>
    /\ input_file = [paragraphs |-> <<>>, parts |-> <<>>]
    /\ paragraphs = <<>>
    /\ parts = <<>>
    /\ texts_to_translate = <<>>

\* if any(len(l or "") > policy.max_chars_per_paragraph for l in safe_lines):
\*     _reduce_font_size(tf, policy.min_font_size_pt, policy.reduce_step_pt)
ReduceFontSize ==
    /\ pc = "start"
    /\ entry = "reduce"
    /\ saved' = [written |-> FALSE,
                 slides |-> [slides EXCEPT ![1].shapes[1] =
                               ReduceFrame(@, policy.min_font_size_pt, policy.reduce_step_pt)]]
    /\ pc' = "done"
    /\ UNCHANGED <<inputs, app, stack, walked, docs, markdown, faults, frame, ghosts, zip, paragraphs, parts, paragraph_infos,
                   texts_to_translate, translated_texts, start, idx, progress,
                   cbRaised, err, snippet, returned>>

SpecReduce == InitReduce /\ [][ReduceFontSize]_vars

\* ------------------------------------------------------------ extraction
NL == "\n"
White(symbol) == symbol \in {SP, NL}

\* str.lstrip(), str.rstrip(), str.strip()
RECURSIVE LStrip(_)
LStrip(text) ==
    IF text # <<>> /\ White(Head(text)) THEN LStrip(Tail(text)) ELSE text
RECURSIVE RStrip(_)
RStrip(text) ==
    IF text # <<>> /\ White(text[Len(text)])
    THEN RStrip(SubSeq(text, 1, Len(text) - 1)) ELSE text
Strip(text) == RStrip(LStrip(text))

\* sep.join(pieces)
RECURSIVE Join(_, _)
Join(sep, pieces) ==
    IF pieces = <<>> THEN <<>>
    ELSE IF Len(pieces) = 1 THEN pieces[1]
    ELSE pieces[1] \o sep \o Join(sep, Tail(pieces))

\* ExtractOptions; slide_range is None (absent) or a list.
NoRange == [absent |-> TRUE, list |-> <<>>]
SlideRange(list) == [absent |-> FALSE, list |-> list]
ExtractOptions(with_notes, figures, charts, table_header, slide_range) ==
    [with_notes |-> with_notes, figures |-> figures, charts |-> charts,
     table_header |-> table_header, slide_range |-> slide_range]

\* A slide with its notes text (<<>>: no notes).
NotedSlide(shapes, notes) == [shapes |-> shapes, background |-> 0, notes |-> notes]

\* _shape_text_lines, _shape_indent_levels
_shape_text_lines(shape) ==
    IF HasTextFrame(shape) THEN [i \in 1..Len(shape.paras) |-> shape.paras[i].text]
    ELSE <<>>
_shape_indent_levels(shape) ==
    IF HasTextFrame(shape) THEN [i \in 1..Len(shape.paras) |-> shape.paras[i].level]
    ELSE <<>>

\* The title so far: None, or a string.
NoTitle == [set |-> FALSE, text |-> <<>>]
Title(text) == [set |-> TRUE, text |-> text]
Resolved(failed, title) == [failed |-> failed, title |-> title]

\* prs_slide.shapes.title.text.strip() or None: the title placeholder is
\* looked up among the top-level shapes; no try surrounds the read.
PlaceholderTitle(shapes) ==
    LET ks == {k \in 1..Len(shapes) : shapes[k].kind = "title"}
    IN  IF ks = {} THEN Resolved(FALSE, NoTitle)
        ELSE LET shape == shapes[CHOOSE k \in ks : \A j \in ks : k <= j]
                 text == Strip(Join(<<NL>>, _shape_text_lines(shape)))
             IN  IF shape.fault = "content" THEN Resolved(TRUE, NoTitle)
                 ELSE IF text = <<>> THEN Resolved(FALSE, NoTitle)
                 ELSE Resolved(FALSE, Title(text))

\* The fallback loop: the first line of the first text box that has lines; the
\* reads of shape_type and of the lines are not inside a try.
RECURSIVE FallbackTitle(_)
FallbackTitle(leaves) ==
    IF leaves = <<>> THEN Resolved(FALSE, NoTitle)
    ELSE LET shape == Head(leaves)
             lines == _shape_text_lines(shape)
         IN  IF shape.fault = "kind" THEN Resolved(TRUE, NoTitle)
             ELSE IF shape.kind # "text_box" THEN FallbackTitle(Tail(leaves))
             ELSE IF shape.fault = "content" THEN Resolved(TRUE, NoTitle)
             ELSE IF lines = <<>> THEN FallbackTitle(Tail(leaves))
             ELSE Resolved(FALSE, Title(Strip(lines[1])))

\* f"Slide {slide_index+1}"
SlideN(slide_index) == <<"Slide", SP, ToString(slide_index + 1)>>

\* The body of the block loop for one shape: the blocks it appends, none when
\* a read raises (except Exception: continue).
ShapeBlocks(shape, opts) ==
    IF shape.fault = "kind" THEN <<>>
    ELSE IF shape.kind = "table"
    THEN IF shape.fault = "content" THEN <<>>
         ELSE <<TableBlock(shape.shape_id,
                           [r \in 1..Len(shape.rows) |->
                               [c \in 1..Len(shape.rows[r]) |-> Strip(shape.rows[r][c].text)]],
                           opts.table_header)>>
    ELSE IF shape.kind = "picture"
    THEN IF opts.figures # "omit"
         THEN <<FigureBlock(shape.shape_id, "image", shape.title)>> ELSE <<>>
    ELSE IF shape.kind = "chart"
    THEN IF opts.charts = "labels"
         THEN IF shape.fault = "content" THEN <<>>
              ELSE <<FigureBlock(shape.shape_id, "chart", shape.title)>>
         ELSE IF opts.figures = "placeholder"
         THEN <<FigureBlock(shape.shape_id, "chart", <<>>)>>
         ELSE <<>>
    ELSE IF ~HasTextFrame(shape) \/ shape.fault = "content" THEN <<>>
    ELSE LET lines == _shape_text_lines(shape)
         IN  IF \E i \in 1..Len(lines) : Strip(lines[i]) # <<>>
             THEN <<TextBlock(shape.shape_id, [i \in 1..Len(lines) |-> Strip(lines[i])],
                              _shape_indent_levels(shape))>>
             ELSE <<>>

\* The note block of a slide.
NoteBlocks(slide, opts) ==
    IF opts.with_notes /\ Strip(slide.notes) # <<>>
    THEN <<NoteBlock(Strip(slide.notes))>> ELSE <<>>

\* extract_slide: the SlideDoc, or failed when an exception leaves the call.
extract_slide(prs_slide, slide_index, opts) ==
    LET leaves == _iter_shapes(prs_slide.shapes)
        placeholder == PlaceholderTitle(prs_slide.shapes)
        fallback == IF placeholder.failed \/ placeholder.title.set THEN placeholder
                    ELSE FallbackTitle(leaves)
        title == IF fallback.title.set THEN fallback.title.text ELSE SlideN(slide_index)
    IN  [failed |-> fallback.failed,
         doc |-> SlideDoc(slide_index, title,
                          Concat([k \in 1..Len(leaves) |-> ShapeBlocks(leaves[k], opts)])
                            \o NoteBlocks(prs_slide, opts))]

\* A faulty variant: the index is compared as it is, counted from 0.
SkippedZeroBased(opts, slide_index) ==
    /\ ~opts.slide_range.absent
    /\ opts.slide_range.list # <<>>
    /\ \A i \in 1..Len(opts.slide_range.list) : opts.slide_range.list[i] # slide_index

\* if options.slide_range and (idx + 1) not in options.slide_range: continue
Skipped(opts, slide_index) ==
    /\ ~opts.slide_range.absent
    /\ opts.slide_range.list # <<>>
    /\ \A i \in 1..Len(opts.slide_range.list) : opts.slide_range.list[i] # slide_index + 1

\* extract_pptx_to_docs
ExtractPptxToDocs ==
    /\ pc = "start"
    /\ entry = "extract"
    /\ LET kept == {k \in 1..Len(slides) : ~Skipped(options, k - 1)}
           results == [k \in 1..Len(slides) |-> extract_slide(slides[k], k - 1, options)]
       IN  IF \E k \in kept : results[k].failed
           THEN /\ Fail("SHAPE")
                /\ docs' = docs
           ELSE /\ docs' = Select([k \in 1..Len(slides) |-> results[k].doc], kept)
                /\ pc' = "docs"
                /\ err' = err
    /\ UNCHANGED <<inputs, app, stack, walked, markdown, faults, frame, ghosts, zip, paragraphs, parts,
                   paragraph_infos, texts_to_translate, translated_texts, start, idx,
                   progress, cbRaised, snippet, saved, returned>>

\* ------------------------------------------------------------- rendering
\* _md_escape: text.replace("|", "\\|")
_md_escape(text) == [i \in 1..Len(text) |-> IF text[i] = "|" THEN "\\|" ELSE text[i]]

\* "| " + " | ".join(cells) + " |"
TableLine(cells) == <<"|", SP>> \o Join(<<SP, "|", SP>>, cells) \o <<SP, "|">>

\* '  ' * level
Indent(level) == [i \in 1..(2 * level) |-> SP]

\* The lines blocks_to_markdown appends for one block.
BlockLines(block, opts) ==
    IF block.type = "text"
    THEN Concat([i \in 1..Len(block.lines) |->
                   IF Strip(block.lines[i]) = <<>> THEN <<>>
                   ELSE <<Indent(IF i <= Len(block.indent_levels)
                                 THEN block.indent_levels[i] ELSE 0)
                            \o <<"-", SP>> \o Strip(block.lines[i])>>])
           \o << <<>> >>
    ELSE IF block.type = "table"
    THEN IF block.rows = <<>> THEN <<>>
         ELSE LET header == block.has_header /\ block.rows[1] # <<>>
                  body == IF header THEN Tail(block.rows) ELSE block.rows
              IN  (IF header
                   THEN <<TableLine([c \in 1..Len(block.rows[1]) |->
                                       _md_escape(block.rows[1][c])]),
                          TableLine([c \in 1..Len(block.rows[1]) |-> <<"---">>])>>
                   ELSE <<>>)
                    \o [r \in 1..Len(body) |->
                          TableLine([c \in 1..Len(body[r]) |-> _md_escape(body[r][c])])]
                    \o << <<>> >>
    ELSE IF block.type = "figure"
    THEN (IF block.figure_type = "image"
          THEN IF opts.figures = "placeholder"
               THEN << <<"[Figure:", SP>>
                         \o (IF block.title = <<>> THEN <<"Image">> ELSE block.title)
                         \o <<"]">> >>
               ELSE <<>>
          ELSE IF opts.charts = "labels"
          THEN << <<"[Figure:", SP, "Chart,", SP, "title=\"">>
                    \o (IF block.title = <<>> THEN <<"Chart">> ELSE block.title)
                    \o <<"\"]">> >>
          ELSE IF opts.figures = "placeholder"
          THEN << <<"[Figure:", SP, "Chart]">> >>
          ELSE <<>>)
           \o << <<>> >>
    ELSE << <<">", SP, "NOTE:", SP>>
              \o Strip([i \in 1..Len(block.text) |->
                          IF block.text[i] = NL THEN SP ELSE block.text[i]]),
            <<>> >>

\* blocks_to_markdown: "\n".join(lines).strip() + "\n"
blocks_to_markdown(blocks, opts) ==
    Strip(Join(<<NL>>, Concat([b \in 1..Len(blocks) |-> BlockLines(blocks[b], opts)])))
        \o <<NL>>

\* docs_to_markdown: "\n".join(out).rstrip() + "\n"
docs_to_markdown(ds, opts) ==
    RStrip(Join(<<NL>>,
                Concat([d \in 1..Len(ds) |->
                          << <<"##", SP, "Slide", SP, ToString(ds[d].slide_index + 1),
                               SP, "-", SP>> \o ds[d].title,
                             <<>>,
                             RStrip(blocks_to_markdown(ds[d].blocks, opts)),
                             <<>> >>])))
        \o <<NL>>

\* docs_to_markdown(docs, opts), which the applications call on the result of
\* extract_pptx_to_docs.
DocsToMarkdown ==
    /\ pc = "docs"
    /\ markdown' = docs_to_markdown(docs, options)
    /\ pc' = "done"
    /\ UNCHANGED <<inputs, app, stack, walked, docs, faults, frame, ghosts, zip, paragraphs, parts,
                   paragraph_infos, texts_to_translate, translated_texts, start, idx,
                   progress, cbRaised, err, snippet, saved, returned>>

\* The texts of the extracted slides.
Q3Results == <<"Q3", SP, "Results">>
RevenueUp == <<"Revenue", SP, "up", SP, "20%">>
DrivenBy == <<SP, SP, "-", SP, "driven", SP, "by", SP, "APAC">>
Revenue == <<"Revenue">>
Apac == <<"APAC">>
Pct == <<"20%">>
Blank == <<SP>>
SeeNotes == <<SP, "see", NL, "appendix", NL>>

\* A title shape "Q3 Results", a text box of two lines at the indent levels 0
\* and 1, and a table of two rows and columns.
ScenarioSlide ==
    NotedSlide(<<TitleShape(1, <<Para(Q3Results, 0, 0)>>),
                 TextBox(2, <<Para(RevenueUp, 0, 0), Para(DrivenBy, 1, 0)>>),
                 Table(3, << <<Cell(Region), Cell(Revenue)>>,
                             <<Cell(Apac), Cell(Pct)>> >>)>>, <<>>)

\* No title placeholder; a picture and, nested twice, a text box whose second
\* line is blank; a chart; notes.
GroupedSlide ==
    NotedSlide(<<Group(<<Picture(4), Group(<<TextBox(5, <<Para(Hello, 0, 0),
                                                          Para(Blank, 1, 0)>>)>>)>>),
                 Chart(6, World)>>, SeeNotes)

\* No title placeholder; the first text box starts with a blank line.
BlankFirstLineSlide ==
    NotedSlide(<<AutoShape(7, <<Para(World, 0, 0)>>),
                 TextBox(2, <<Para(Blank, 0, 0), Para(Hello, 0, 0)>>),
                 TextBox(3, <<Para(World, 0, 0)>>)>>, <<>>)

\* No title placeholder; the only paragraph of the first text box is empty.
EmptyLineSlide ==
    NotedSlide(<<TextBox(2, <<Para(<<>>, 0, 0)>>), TextBox(3, <<Para(World, 0, 0)>>)>>, <<>>)

\* A blank title placeholder, with and without a text box after it.
BlankTitleSlide ==
    NotedSlide(<<TitleShape(1, <<Para(Blank, 0, 0)>>), AutoShape(2, <<Para(World, 0, 0)>>)>>,
               Blank)
BlankTitleBoxSlide ==
    NotedSlide(<<TitleShape(1, <<Para(Blank, 0, 0)>>),
                 Group(<<TextBox(2, <<Para(<<SP, "World", SP>>, 0, 0)>>)>>)>>, <<>>)

EmptySlide == NotedSlide(<<>>, <<>>)

\* The slides with shapes whose reads raise: a text box, a table in a group
\* and a chart, each sound or with a kind or a content that cannot be read,
\* after a sound title placeholder or without one; and a title placeholder
\* whose text cannot be read.
FaultKinds == {"none", "kind", "content"}
FaultySlides ==
    {NotedSlide((IF titled THEN <<TitleShape(1, <<Para(Q3Results, 0, 0)>>)>> ELSE <<>>)
                  \o <<[TextBox(2, <<Para(Hello, 0, 0)>>) EXCEPT !.fault = f[1]],
                       Group(<<[Table(3, << <<Cell(Region)>> >>) EXCEPT !.fault = f[2]]>>),
                       [Chart(4, World) EXCEPT !.fault = f[3]]>>, <<>>) :
        titled \in BOOLEAN, f \in [1..3 -> FaultKinds]}
      \cup {NotedSlide(<<[TitleShape(1, <<Para(Q3Results, 0, 0)>>) EXCEPT !.fault = "content"],
                         TextBox(2, <<Para(Hello, 0, 0)>>)>>, <<>>)}

SlideSet ==
    {ScenarioSlide, GroupedSlide, BlankFirstLineSlide, EmptyLineSlide, BlankTitleSlide,
     BlankTitleBoxSlide, EmptySlide} \cup FaultySlides

\* The presentations: up to MaxSlides slides, one of them any slide of
\* SlideSet, the others ScenarioSlide or GroupedSlide.
DeckSet ==
    {<<>>} \cup
    UNION {{[i \in 1..n |-> IF i = at THEN slide ELSE fill[i]] :
              at \in 1..n, slide \in SlideSet,
              fill \in [1..n -> {ScenarioSlide, GroupedSlide}]} : n \in 1..MaxSlides}

\* The slide ranges: none, an empty list, and lists of slides that are there
\* or not.
RangeSet ==
    {NoRange} \cup {SlideRange(list) :
                      list \in {<<>>, <<1>>, <<2>>, <<2, 1>>, <<MaxSlides + 1>>}}

OptionSet ==
    {ExtractOptions(o[1], o[2], o[3], o[4], slide_range) :
        o \in {<<FALSE, "placeholder", "labels", TRUE>>,
               <<TRUE, "omit", "placeholder", FALSE>>,
               <<TRUE, "placeholder", "omit", TRUE>>,
               <<FALSE, "omit", "labels", FALSE>>},
        slide_range \in RangeSet}

\* extract_pptx_to_docs(path, options), then docs_to_markdown(docs, options).
InitExtract ==
    /\ InitCall
    /\ entry = "extract"
    /\ slides \in DeckSet
    /\ options \in OptionSet
    /\ policy = "none"
    /\ translated_docs = <<>>
    /\ rephraser = "none"
    /\ batch_size = 1
    /\ callback = "none"
    /\ translator = "identity"
    /\ api_key = TRUE
    /\ archive = <<>>
    /\ input_file = [paragraphs |-> <<>>, parts |-> <<>>]
    /\ paragraphs = <<>>
    /\ parts = <<>>
    /\ texts_to_translate = <<>>

SpecExtract == InitExtract /\ [][ExtractPptxToDocs \/ DocsToMarkdown]_vars

\* The shape trees of n shapes whose first top-level shape is the i-th child
\* of the shape at path: a shape is a leaf or a group (with or without
\* shapes), and the id of a leaf is its path in the tree.
RECURSIVE ForestOf(_, _, _)
RECURSIVE TreeOf(_, _)
ForestOf(path, i, n) ==
    IF n = 0 THEN {<<>>}
    ELSE UNION {{<<t>> \o rest : t \in TreeOf(Append(path, i), m),
                                 rest \in ForestOf(path, i + 1, n - m)} : m \in 1..n}
TreeOf(path, m) ==
    (IF m = 1 THEN {TextBox(path, <<>>)} ELSE {})
        \cup {Group(shapes) : shapes \in ForestOf(path, 1, m - 1)}

\* list(_iter_shapes(shapes)) on a shape tree of at most MaxShapes shapes.
InitWalk ==
    /\ InitCall
    /\ entry = "walk"
    /\ \E n \in 0..MaxShapes : \E shapes \in ForestOf(<<>>, 1, n) :
          slides = <<Slide(shapes, 0)>>
    /\ NoBlockInputs
    /\ batch_size = 1
    /\ callback = "none"
    /\ translator = "identity"
    /\ api_key = TRUE
    /\ archive = <<>>
    /\ input_file = [paragraphs |-> <<>>, parts |-> <<>>]
    /\ paragraphs = <<>>
    /\ parts = <<>>
    /\ texts_to_translate = <<>>

Walk ==
    /\ pc = "start"
    /\ entry = "walk"
    /\ walked' = _iter_shapes(slides[1].shapes)
    /\ pc' = "done"
    /\ UNCHANGED <<inputs, app, stack, docs, markdown, faults, frame, ghosts, zip, paragraphs, parts, paragraph_infos,
                   texts_to_translate, translated_texts, start, idx, progress,
                   cbRaised, err, snippet, saved, returned>>

SpecWalk == InitWalk /\ [][Walk]_vars


\* _iter_shapes as the interpreter runs it, one generator for every group it
\* descends into.  The shapes are objects that refer to one another, so that
\* a group may hold itself: objects[id] is a leaf, or a group and the ids of
\* its shapes.
MaxObjects == 2

\* The interpreter's recursion limit (sys.getrecursionlimit()), counted in
\* running generators.
RecursionLimit == 3

Leaf == [kind |-> "leaf", shapes |-> <<>>]
GroupOf(ids) == [kind |-> "group", shapes |-> ids]

\* The collections of a group: some of the objects, each once, in any order.
Collections ==
    {ids \in UNION {[1..n -> 1..MaxObjects] : n \in 0..MaxObjects} :
        \A j, k \in 1..Len(ids) : ids[j] = ids[k] => j = k}

ObjectSet == {Leaf} \cup {GroupOf(ids) : ids \in Collections}

\* A generator that is running: the collection it iterates and how many of
\* its shapes it has passed.
Generator(shapes) == [shapes |-> shapes, at |-> 0]

\* A faulty variant: an interpreter that sets no limit to the recursion.
RecursionUnbounded(depth) == FALSE

\* The call of a generator that would be the depth-th running one raises
\* RecursionError.
RecursionLimitExceeded(depth) == depth > RecursionLimit

\* list(_iter_shapes(shapes)) on the collection that holds object 1.
InitIterate ==
    /\ InitCall
    /\ entry = "iterate"
    /\ \E objects \in [1..MaxObjects -> ObjectSet] :
          slides = <<[shapes |-> <<1>>, background |-> 0, objects |-> objects]>>
    /\ NoBlockInputs
    /\ batch_size = 1
    /\ callback = "none"
    /\ translator = "identity"
    /\ api_key = TRUE
    /\ archive = <<>>
    /\ input_file = [paragraphs |-> <<>>, parts |-> <<>>]
    /\ paragraphs = <<>>
    /\ parts = <<>>
    /\ texts_to_translate = <<>>

IterateUnchanged ==
    UNCHANGED <<inputs, app, docs, markdown, faults, frame, ghosts, zip, paragraphs, parts,
                paragraph_infos, texts_to_translate, translated_texts, start, idx, progress,
                cbRaised, snippet, saved, returned>>

\* _iter_shapes(shapes) is called and its generator started.
IterCall ==
    /\ pc = "start"
    /\ entry = "iterate"
    /\ stack' = <<Generator(slides[1].shapes)>>
    /\ pc' = "iterating"
    /\ UNCHANGED <<walked, err>>
    /\ IterateUnchanged

\* for s in shapes, not a group: yield s, through every generator above.
IterYield ==
    /\ pc = "iterating"
    /\ LET top == stack[Len(stack)]
       IN  /\ top.at < Len(top.shapes)
           /\ slides[1].objects[top.shapes[top.at + 1]].kind # "group"
           /\ walked' = Append(walked, top.shapes[top.at + 1])
           /\ stack' = [stack EXCEPT ![Len(stack)].at = @ + 1]
    /\ UNCHANGED <<pc, err>>
    /\ IterateUnchanged

\* for s in shapes, a group: for sub in _iter_shapes(s.shapes) starts another
\* generator, unless the interpreter's recursion limit is exceeded: then
\* RecursionError leaves every generator and the call.
IterDescend ==
    /\ pc = "iterating"
    /\ LET top == stack[Len(stack)]
       IN  /\ top.at < Len(top.shapes)
           /\ slides[1].objects[top.shapes[top.at + 1]].kind = "group"
           /\ IF RecursionLimitExceeded(Len(stack) + 1)
              THEN /\ Fail("RecursionError")
                   /\ stack' = <<>>
              ELSE /\ stack' = Append([stack EXCEPT ![Len(stack)].at = @ + 1],
                                      Generator(slides[1].objects[top.shapes[top.at + 1]].shapes))
                   /\ UNCHANGED <<pc, err>>
    /\ UNCHANGED walked
    /\ IterateUnchanged

\* The collection is exhausted: the generator returns, and the walk ends
\* with the outermost one.
IterReturn ==
    /\ pc = "iterating"
    /\ stack[Len(stack)].at = Len(stack[Len(stack)].shapes)
    /\ stack' = SubSeq(stack, 1, Len(stack) - 1)
    /\ pc' = IF Len(stack) = 1 THEN "done" ELSE "iterating"
    /\ UNCHANGED <<walked, err>>
    /\ IterateUnchanged

NextIterate == IterCall \/ IterYield \/ IterDescend \/ IterReturn

\* The interpreter goes on running the walk as long as it can take a step.
SpecIterate == InitIterate /\ [][NextIterate]_vars /\ WF_vars(NextIterate)

\* ---------------------------------------------------------- glossary upload
\* streamlit_app.py: the limits of an uploaded glossary.
MAX_GLOSSARY_ENTRIES == 500
MAX_FILE_SIZE_MB == 5
MAX_TERM_LENGTH == 100
MegaByte == 1024 * 1024

\* An uploaded file holds at most this many groups of rows.
MaxRowGroups == 2

\* A term of a glossary: a JSON value or an Excel cell.  A string is white
\* space, text, white space, each of a length; a number has the characters
\* str() gives it; null is JSON's null and Excel's empty cell.
Term(type, lead, core, trail) == [type |-> type, lead |-> lead, core |-> core, trail |-> trail]
Str(lead, core, trail) == Term("str", lead, core, trail)
Number == Term("number", 0, 2, 0)
Null == Term("null", 0, 0, 0)

\* len(term)
TermLen(t) == t.lead + t.core + t.trail

\* term.strip()
StripTerm(t) == [t EXCEPT !.lead = 0, !.trail = 0]

\* n entries with distinct sources, each a source and a target of this form.
Rows(source, target, n) == [source |-> source, target |-> target, n |-> n]

\* len(glossary), len(df)
RECURSIVE Count(_)
Count(rows) == IF rows = <<>> THEN 0 ELSE Head(rows).n + Count(Tail(rows))

\* The glossary a function returns: None, or a dict.
Dict(rows) == [kind |-> "dict", rows |-> rows]

\* if glossary:
NonEmpty(glossary) == glossary.kind = "dict" /\ Count(glossary.rows) > 0

\* What a call gives: the exception it raised ("" when none) and its value.
Given(glossary) == [raised |-> "", glossary |-> glossary]
Raised(exception) == [raised |-> exception, glossary |-> NoGlossary]

\* {k.strip(): v.strip() for k, v in glossary.items() if k.strip() and v.strip()}
RECURSIVE StripItems(_)
StripItems(rows) ==
    IF rows = <<>> THEN <<>>
    ELSE LET r == Head(rows)
         IN  IF StripTerm(r.source).core > 0 /\ StripTerm(r.target).core > 0
             THEN <<Rows(StripTerm(r.source), StripTerm(r.target), r.n)>> \o StripItems(Tail(rows))
             ELSE StripItems(Tail(rows))

\* v.strip() of a value that is no string raises AttributeError; it is
\* evaluated for the items whose key is not blank.
StripRaises(rows) ==
    \E k \in 1..Len(rows) :
        StripTerm(rows[k].source).core > 0 /\ rows[k].target.type # "str"

\* _validate_glossary: an empty glossary and one of more than
\* MAX_GLOSSARY_ENTRIES entries give None, any other is stripped.
_validate_glossary(rows) ==
    IF Count(rows) = 0 THEN Given(NoGlossary)
    ELSE IF Count(rows) > MAX_GLOSSARY_ENTRIES THEN Given(NoGlossary)
    ELSE IF StripRaises(rows) THEN Raised("AttributeError")
    ELSE Given(Dict(StripItems(rows)))

\* str(row.iloc[i]).strip() if pd.notna(row.iloc[i]) else ""
ExcelCell(t) == IF t.type = "null" THEN Str(0, 0, 0) ELSE StripTerm(Str(t.lead, t.core, t.trail))

\* The loop over df.iterrows(): rows with an empty cell and rows with a term
\* of more than MAX_TERM_LENGTH characters are skipped.
RECURSIVE ExcelItems(_)
ExcelItems(rows) ==
    IF rows = <<>> THEN <<>>
    ELSE LET source == ExcelCell(Head(rows).source)
             target == ExcelCell(Head(rows).target)
         IN  IF TermLen(source) = 0 \/ TermLen(target) = 0
             THEN ExcelItems(Tail(rows))
             ELSE IF TermLen(source) > MAX_TERM_LENGTH \/ TermLen(target) > MAX_TERM_LENGTH
             THEN ExcelItems(Tail(rows))
             ELSE <<Rows(source, target, Head(rows).n)>> \o ExcelItems(Tail(rows))

\* An uploaded file: its extension, what its bytes hold, and the bytes that
\* carry no entry (white space, formatting).
Body(kind, rows) == [kind |-> kind, rows |-> rows]
File(ext, body, pad) == [ext |-> ext, body |-> body, pad |-> pad]

RECURSIVE Chars(_)
Chars(rows) ==
    IF rows = <<>> THEN 0
    ELSE Head(rows).n * (TermLen(Head(rows).source) + TermLen(Head(rows).target) + 6)
         + Chars(Tail(rows))

\* len(file_bytes)
Size(file) == IF file.body.kind = "empty" THEN 0 ELSE 2 + Chars(file.body.rows) + file.pad

\* _load_glossary_from_bytes
_load_glossary_from_bytes(file) ==
    IF Size(file) = 0 THEN Given(NoGlossary)
    ELSE IF Size(file) > MAX_FILE_SIZE_MB * MegaByte THEN Given(NoGlossary)
    ELSE IF file.ext = "json"
    THEN IF file.body.kind # "dict" THEN Given(NoGlossary)
         ELSE _validate_glossary(file.body.rows)
    ELSE IF file.ext \in {"xlsx", "xls"}
    THEN IF file.body.kind # "table" THEN Given(NoGlossary)
         ELSE IF Count(file.body.rows) > MAX_GLOSSARY_ENTRIES THEN Given(NoGlossary)
         ELSE _validate_glossary(ExcelItems(file.body.rows))
    ELSE Given(NoGlossary)

\* get_glossary_from_upload: the glossary of the file, from the session's
\* cache when the file is the one cached; what it raised, what it returned
\* and the session it leaves.
get_glossary_from_upload(uploaded_file, session) ==
    IF uploaded_file = NoFile
    THEN [raised |-> "", glossary |-> NoGlossary, session |-> NoSession]
    ELSE IF session.cached_glossary_meta = uploaded_file
    THEN [raised |-> "", glossary |-> session.cached_glossary, session |-> session]
    ELSE LET loaded == _load_glossary_from_bytes(uploaded_file)
         IN  IF loaded.raised # ""
             THEN [raised |-> loaded.raised, glossary |-> NoGlossary, session |-> session]
             ELSE [raised |-> "", glossary |-> loaded.glossary,
                   session |-> IF NonEmpty(loaded.glossary)
                               THEN [cached_glossary |-> loaded.glossary,
                                     cached_glossary_meta |-> uploaded_file]
                               ELSE NoSession]

\* TranslationConfig(..., glossary=glossary, ...)
TranslationConfig(glossary) == [glossary |-> glossary, built |-> TRUE]

\* The terms and the files of this model.
SourceSet == {Str(0, 1, 0), Str(0, 100, 1), Str(0, 101, 0), Str(1, 0, 0)}
TargetSet == {Str(0, 1, 0), Str(1, 101, 0), Str(0, 0, 0), Number, Null}
RowSet == {Rows(s, t, n) : s \in SourceSet, t \in TargetSet, n \in {1, MAX_GLOSSARY_ENTRIES}}
FileSet(groups) ==
    {File(ext, Body(kind, <<>>), 0) :
        ext \in {"json", "xlsx", "xls", "txt"},
        kind \in {"empty", "undecodable", "invalid", "list", "one_column"}}
    \cup {File(ext, Body(kind, rows), pad) :
            ext \in {"json", "xlsx"}, kind \in {"dict", "table"},
            rows \in UNION {[1..k -> RowSet] : k \in 0..groups},
            pad \in {0, MAX_FILE_SIZE_MB * MegaByte}}

\* The application starts with no file uploaded.
InitApp ==
    /\ InitLocals
    /\ NoBlockInputs
    /\ entry = "run_action"
    /\ slides = <<>>
    /\ batch_size = 0
    /\ callback = "none"
    /\ translator = "free"
    /\ api_key = TRUE
    /\ archive = <<>>
    /\ paragraphs = <<>>
    /\ parts = <<>>
    /\ input_file = [paragraphs |-> <<>>, parts |-> <<>>]
    /\ texts_to_translate = <<>>
    /\ glossary_file = NoFile
    /\ session_state = NoSession
    /\ cfg = NoConfig

\* One run of the script up to its buttons, the uploader holding this file:
\* the glossary preview loads the file, or forgets the cached glossary when
\* there is none.  An exception ends the run; otherwise the translation may
\* have been asked for.
Sidebar(uploaded_file) ==
    LET got == get_glossary_from_upload(uploaded_file, session_state)
    IN  /\ glossary_file' = uploaded_file
        /\ IF got.raised # ""
           THEN /\ Fail(got.raised)
                /\ UNCHANGED session_state
           ELSE /\ session_state' = got.session
                /\ \E clicked \in BOOLEAN : pc' = IF clicked THEN "clicked" ELSE "start"
                /\ err' = err
        /\ UNCHANGED <<inputs, cfg, stack, walked, docs, markdown, faults, frame, ghosts, zip, paragraphs,
                       parts, paragraph_infos, texts_to_translate, translated_texts, start,
                       idx, progress, cbRaised, snippet, saved, returned>>

\* The user puts a file into the uploader.
Upload ==
    /\ pc = "start"
    /\ entry = "run_action"
    /\ glossary_file = NoFile
    /\ \E uploaded_file \in FileSet(MaxRowGroups) : Sidebar(uploaded_file)

\* The user takes the file out of the uploader.
Remove ==
    /\ pc = "start"
    /\ entry = "run_action"
    /\ glossary_file # NoFile
    /\ Sidebar(NoFile)

\* The script runs again, the uploader as it was.
Rerun ==
    /\ pc = "start"
    /\ entry = "run_action"
    /\ Sidebar(glossary_file)

\* run_action("translate_ppt") up to the call of
\* create_translated_presentation_v2: the glossary is placed in the
\* TranslationConfig.
RunAction ==
    /\ pc = "clicked"
    /\ entry = "run_action"
    /\ LET got == IF glossary_file # NoFile
                  THEN get_glossary_from_upload(glossary_file, session_state)
                  ELSE [raised |-> "", glossary |-> session_state.cached_glossary,
                        session |-> session_state]
       IN  IF got.raised # ""
           THEN /\ Fail(got.raised)
                /\ UNCHANGED <<session_state, cfg>>
           ELSE /\ session_state' = got.session
                /\ cfg' = TranslationConfig(got.glossary)
                /\ pc' = "translate"
                /\ err' = err
    /\ UNCHANGED <<inputs, glossary_file, stack, walked, docs, markdown, faults, frame, ghosts, zip,
                   paragraphs, parts, paragraph_infos, texts_to_translate, translated_texts,
                   start, idx, progress, cbRaised, snippet, saved, returned>>

SpecApp == InitApp /\ [][Upload \/ Remove \/ Rerun \/ RunAction]_vars

\* ------------------------------------------------------------- properties
\* The translation loop of create_translated_presentation_v2 has ended.
AfterTranslation ==
    /\ entry = "create_v2"
    /\ pc \in {"reinsert", "image", "complete", "save", "done"}

\* The returned calls of translate_texts whose request held the string s.
CallsSending(s) ==
    {b \in 1..Len(answers) :
        \E j \in 1..Len(answers[b].payload) : answers[b].payload[j] = s}

\* C1: within one run of create_translated_presentation_v2 over a document's
\* paragraph texts, a source string that occurs more than once is sent to the
\* translator in exactly one call of the whole run, and every occurrence of it
\* receives the same translated value.
RepeatedStringTranslatedOnce ==
    AfterTranslation =>
        \A i, j \in 1..Len(texts_to_translate) :
            (i < j /\ texts_to_translate[i] = texts_to_translate[j]) =>
                /\ Cardinality(CallsSending(texts_to_translate[i])) = 1
                /\ Len(translated_texts) = Len(texts_to_translate)
                /\ translated_texts[i] = translated_texts[j]

\* The returned call of translate_texts that translated position i of the
\* document's texts, and the value the translator gave in it for the string s.
CallOf(i) ==
    CHOOSE b \in 1..Len(answers) :
        answers[b].start < i /\ i <= answers[b].start + Len(answers[b].texts)

HoldsValueFor(value, a, s) ==
    /\ \E j \in 1..Len(a.payload) : a.payload[j] = s
    /\ \A j \in 1..Len(a.payload) :
          a.payload[j] = s =>
              /\ j <= Len(a.decoded)
              /\ value = a.decoded[j]

\* C2: when the translator has answered every request with a well-formed
\* array of the requested length, the translated list (the result of
\* translate_texts, and the list extended batch by batch) has the length of
\* the input, and position i holds the translator's value for the input
\* string at position i.
TranslatedByPosition ==
    /\ AfterTranslation =>
          /\ Len(translated_texts) = Len(texts_to_translate)
          /\ \A i \in 1..Len(texts_to_translate) :
                /\ \E b \in 1..Len(answers) :
                      answers[b].start < i /\ i <= answers[b].start + Len(answers[b].texts)
                /\ HoldsValueFor(translated_texts[i], answers[CallOf(i)],
                                 texts_to_translate[i])
    /\ (entry = "translate_texts" /\ pc = "done") =>
          /\ returned.kind = "list"
          /\ Len(returned.texts) = Len(texts_to_translate)
          /\ \A i \in 1..Len(texts_to_translate) :
                /\ Len(answers) = 1
                /\ HoldsValueFor(returned.texts[i], answers[1], texts_to_translate[i])

\* Two batches were translated, a string was repeated within a batch, and the
\* translator answered with a null and with a number.
TranslatedByPositionReached ==
    /\ entry = "create_v2"
    /\ pc = "done"
    /\ Len(answers) = 2
    /\ \E b \in 1..2 : Len(answers[b].payload) < Len(answers[b].texts)
    /\ \E i, j \in 1..Len(translated_texts) :
          translated_texts[i] = <<>> /\ translated_texts[j] = <<"7">>

\* C3: when the translator answers a request with a well-formed array of
\* another length than the request's, the call fails with a length-mismatch
\* error and no request follows; nothing is returned, no paragraph of the
\* loaded document has been modified and no document is saved.
LengthMismatchFails ==
    mismatch_at # 0 =>
        /\ pc = "failed"
        /\ err = "LENGTH_MISMATCH"
        /\ Len(requests) = mismatch_at
        /\ returned = NoValue
        /\ paragraphs = input_file.paragraphs
        /\ ~saved.written

\* A later batch of a document was answered by an array of another length,
\* after the first batch had been translated.
LengthMismatchReached ==
    /\ entry = "create_v2"
    /\ mismatch_at >= 2
    /\ requests[mismatch_at].start > 0
    /\ translated_texts # <<>>
    /\ Len(content.result) # Len(requests[mismatch_at].payload)

\* A response body that _decode_translation_payload rejects: no JSON, a root
\* that is no object, or no "result" array.
Malformed(body) == body.kind \in {"not_json", "not_object", "no_result"}

\* The requests sent for the batch that starts at st.
RequestsOf(st) == {k \in 1..Len(requests) : requests[k].start = st}

\* C4: for each batch, a malformed response is retried exactly once, with a
\* corrective instruction appended to the request; when the retried response
\* is malformed too, the call fails with a parse error that carries the first
\* 2000 characters of the last bad response.  No batch is requested more than
\* twice.
MalformedRetriedOnce ==
    /\ \A k \in 1..Len(requests) :
          /\ Cardinality(RequestsOf(requests[k].start)) <= 2
          /\ IF k > 1 /\ requests[k - 1].start = requests[k].start
             THEN /\ requests[k - 1].messages = <<"system", "user">>
                  /\ requests[k].messages = <<"system", "user", Corrective>>
                  /\ requests[k].payload = requests[k - 1].payload
             ELSE requests[k].messages = <<"system", "user">>
    /\ (pc = "request" /\ attempt > 0) =>
          /\ attempt = 1
          /\ Malformed(content)
          /\ messages = <<"system", "user", Corrective>>
          /\ Cardinality(RequestsOf(start)) = 1
    /\ (content # NoContent /\ Malformed(content)) =>
          \/ pc = "request" /\ attempt = 1
          \/ /\ pc = "failed"
             /\ err = "PARSE_ERROR"
             /\ Cardinality(RequestsOf(start)) = 2
             /\ snippet.kind = content.kind
             /\ snippet.len = IF content.len > 2000 THEN 2000 ELSE content.len
    /\ err = "PARSE_ERROR" => Malformed(content) /\ returned = NoValue /\ ~saved.written

\* The second batch of a document was answered twice by a malformed body, the
\* last one longer than the snippet.
MalformedRetriedOnceReached ==
    /\ entry = "create_v2"
    /\ err = "PARSE_ERROR"
    /\ start > 0
    /\ Len(requests) >= 3
    /\ content.len > 2000
    /\ snippet.len = 2000

\* C5: the ratios handed to the progress callback during one call of
\* create_translated_presentation_v2 never decrease and lie in [0, 1], for
\* every number of texts and every batch_size >= 1.
ProgressMonotonic ==
    (entry = "create_v2" /\ batch_size >= 1) =>
        \A k \in 1..Len(progress) :
            /\ 0 <= progress[k].ratio
            /\ progress[k].ratio <= One(Len(texts_to_translate))
            /\ k > 1 => progress[k - 1].ratio <= progress[k].ratio

\* What a call makes of its inputs when the translator is a stub, told from
\* the inputs alone: the captured paragraphs of the file, the stub's value for
\* each, and the paragraphs after the reinsertion.  The function of
\* ppt_generator.py captures every paragraph that has a run and a text that is
\* not blank.
CapturedHandles ==
    {h \in 1..Len(input_file.paragraphs) :
        /\ input_file.paragraphs[h] # <<>>
        /\ ~IsBlank(JoinRuns(input_file.paragraphs[h]))}

StubValue(text) ==
    LET item == StubItem(translator, text)
    IN  IF item.t = "null" THEN <<>> ELSE item.v

ExpectedRuns(h) ==
    LET original == JoinRuns(input_file.paragraphs[h])
    IN  IF h \notin CapturedHandles THEN input_file.paragraphs[h]
        ELSE <<[text |-> IF StubValue(original) = <<>> THEN original
                         ELSE StubValue(original),
                font |-> input_file.paragraphs[h][1].font]>>

ExpectedParagraphs == [h \in 1..Len(input_file.paragraphs) |-> ExpectedRuns(h)]

ExpectedWords ==
    LET S == {h \in CapturedHandles : TRUE}
        words[T \in SUBSET S] ==
            IF T = {} THEN 0
            ELSE LET h == CHOOSE x \in T : TRUE
                 IN  WordCount(StubValue(JoinRuns(input_file.paragraphs[h])))
                        + words[T \ {h}]
    IN  words[S]

\* The entries optimize_pptx_media_zip writes for an archive.
ExpectedEntry(e) ==
    IF e.media /\ e.data.fmt \in {"JPEG", "PNG"} /\ e.data.enc < e.data.size
    THEN [e EXCEPT !.data = [fmt |-> e.data.fmt, size |-> e.data.enc, enc |-> e.data.enc]]
    ELSE e

\* C6: an exception raised by the progress callback on any of its invocations
\* (in create_translated_presentation_v2, compress_images_in_presentation or
\* optimize_pptx_media_zip) never leaves the call: the call goes on, and
\* returns the statistics and writes the document that the inputs determine,
\* whatever the callback did.
CallbackFailureSwallowed ==
    /\ err # "CALLBACK"
    /\ cbRaised => (pc = "failed" => err = "NO_API_KEY" /\ ~api_key)
    /\ (pc = "done" /\ entry = "create_v2") =>
          /\ saved.written
          /\ saved.paragraphs = ExpectedParagraphs
          /\ saved.parts \in {input_file.parts,
                              compress_images_in_presentation(slides, input_file.parts).parts}
          /\ returned.kind = "stats"
          /\ returned.slides = Len(slides)
          /\ returned.word_count = ExpectedWords
    /\ (pc = "done" /\ entry = "compress") =>
          /\ parts = compress_images_in_presentation(slides, input_file.parts).parts
          /\ returned = ImageStats(compress_images_in_presentation(slides, input_file.parts).stats)
    /\ (pc = "done" /\ entry = "zip") =>
          /\ zout = [k \in 1..Len(archive) |-> ExpectedEntry(archive[k])]
          /\ returned.kind = "image_stats"
          /\ returned.images.media = Cardinality({k \in 1..Len(archive) : archive[k].media})
          /\ returned.images.optimized =
                Cardinality({k \in 1..Len(archive) : ExpectedEntry(archive[k]) # archive[k]})

\* A translation with image optimization has ended after the callback raised.
CallbackFailureSwallowedReached ==
    /\ entry = "create_v2"
    /\ callback = "raises"
    /\ cbRaised
    /\ pc = "done"
    /\ saved.written
    /\ saved.parts # input_file.parts
    /\ Len(texts_to_translate) >= 2

\* The distinct elements of a list, in the order of their first occurrence.
RECURSIVE FirstOccurrences(_)
FirstOccurrences(seq) ==
    IF seq = <<>> THEN <<>>
    ELSE LET front == SubSeq(seq, 1, Len(seq) - 1)
             last == seq[Len(seq)]
         IN  IF \E k \in 1..Len(front) : front[k] = last
             THEN FirstOccurrences(front)
             ELSE Append(FirstOccurrences(front), last)

\* C7: the strings sent to the translator are the distinct input strings in
\* the order of their first occurrence, each once: for the input
\* [Hello, World, Hello] the translator is requested with exactly
\* [Hello, World], and the output is the three translations in input order.
PayloadIsFirstOccurrences ==
    /\ \A k \in 1..Len(requests) :
          /\ requests[k].payload = FirstOccurrences(requests[k].texts)
          /\ \A i, j \in 1..Len(requests[k].payload) :
                requests[k].payload[i] = requests[k].payload[j] => i = j
    /\ (entry = "translate_texts" /\ texts_to_translate = <<Hello, World, Hello>>) =>
          /\ \A k \in 1..Len(requests) : requests[k].payload = <<Hello, World>>
          /\ pc = "done" =>
                /\ Len(answers) = 1
                /\ Len(answers[1].decoded) = 2
                /\ returned.texts = <<answers[1].decoded[1], answers[1].decoded[2],
                                      answers[1].decoded[1]>>

\* translate_texts has returned for [Hello, World, Hello], with two values
\* that differ.
PayloadIsFirstOccurrencesReached ==
    /\ entry = "translate_texts"
    /\ texts_to_translate = <<Hello, World, Hello>>
    /\ pc = "done"
    /\ Len(requests) = 1
    /\ requests[1].payload = <<Hello, World>>
    /\ returned.texts[1] # returned.texts[2]

\* C8: with a deterministic translator stub, the final translated list and the
\* reinserted document are what the texts and the stub determine, the same
\* for every batch_size (1, a size in between, or all texts at once).
BatchSizeTransparent ==
    (entry = "create_v2" /\ pc = "done") =>
        /\ Len(translated_texts) = Len(texts_to_translate)
        /\ \A i \in 1..Len(texts_to_translate) :
              translated_texts[i] = StubValue(texts_to_translate[i])
        /\ saved.paragraphs = ExpectedParagraphs

\* Three texts, one of them repeated, were translated in batches of two.
BatchSizeTransparentReached ==
    /\ entry = "create_v2"
    /\ pc = "done"
    /\ batch_size = 2
    /\ Len(texts_to_translate) = 3
    /\ texts_to_translate[1] = texts_to_translate[3]
    /\ texts_to_translate[1] # texts_to_translate[2]
    /\ translator = "dict"

\* No paragraph of the file has a text to translate.
NothingToTranslate ==
    \A h \in 1..Len(input_file.paragraphs) : IsBlank(JoinRuns(input_file.paragraphs[h]))

\* C9: translate_texts on an empty list returns an empty list without
\* building a client or sending a request; create_translated_presentation_v2
\* on a document without a translatable paragraph saves the document with no
\* paragraph changed, returns word_count 0 and never contacts the translator.
EmptyInputContactsNobody ==
    /\ (entry = "translate_texts" /\ texts_to_translate = <<>>) =>
          /\ clients = 0
          /\ requests = <<>>
          /\ pc \in {"start", "done"}
          /\ pc = "done" => returned = TextList(<<>>)
    /\ (entry = "create_v2" /\ NothingToTranslate) =>
          /\ clients = 0
          /\ requests = <<>>
          /\ pc # "failed"
          /\ paragraphs = input_file.paragraphs
          /\ pc = "done" =>
                /\ saved.written
                /\ saved.paragraphs = input_file.paragraphs
                /\ returned.kind = "stats"
                /\ returned.word_count = 0

\* A document of blank paragraphs was saved without an API key.
EmptyInputContactsNobodyReached ==
    /\ entry = "create_v2"
    /\ Len(input_file.paragraphs) >= 2
    /\ NothingToTranslate
    /\ ~api_key
    /\ pc = "done"
    /\ saved.written

\* C10: after the reinsertion of a paragraph that was captured, in a text
\* frame or in a table cell, the paragraph has exactly one run, whose text is
\* the translated value paired with it, or its original text when the
\* translated value is empty.
OneRunPerCapturedParagraph ==
    (entry \in {"create_v2", "reinsert_v2"}
        /\ pc \in {"reinsert", "image", "complete", "save", "done"}) =>
        /\ pc # "reinsert" => idx = Len(paragraph_infos)
        /\ entry = "create_v2" =>
              \A h \in CapturedHandles :
                  \E i \in 1..Len(paragraph_infos) : paragraph_infos[i].paragraph_ref = h
        /\ \A i \in 1..idx :
              LET p == paragraphs[paragraph_infos[i].paragraph_ref]
              IN  /\ Len(p) = 1
                  /\ p[1].text = IF translated_texts[i] = <<>>
                                 THEN JoinRuns(input_file.paragraphs[paragraph_infos[i].paragraph_ref])
                                 ELSE translated_texts[i]

\* A paragraph of two runs in a table cell, for which the stub gave no value,
\* was saved with its original text in one run.
OneRunPerCapturedParagraphReached ==
    /\ entry = "create_v2"
    /\ pc = "done"
    /\ \E i \in 1..Len(paragraph_infos) :
          /\ paragraph_infos[i].shape_id = 5
          /\ translated_texts[i] = <<>>
          /\ Len(input_file.paragraphs[paragraph_infos[i].paragraph_ref]) = 2
          /\ Len(saved.paragraphs[paragraph_infos[i].paragraph_ref]) = 1
    /\ \E i \in 1..Len(paragraph_infos) :
          /\ paragraph_infos[i].shape_id = 2
          /\ translated_texts[i] = Annyeong

\* The paragraphs at which a library call raised during the reinsertion.
Faulted == {faults[k].idx : k \in 1..Len(faults)}

\* C12: a failure while writing one paragraph during reinsertion never aborts
\* the run: every later paragraph is still written and the document is saved,
\* and the failing paragraph is left either with its original text or
\* untouched, never emptied.
FailedParagraphKept ==
    /\ faults # <<>> => pc # "failed"
    /\ (pc = "done" /\ entry \in {"create_v2", "reinsert_v2"}) =>
          /\ saved.written
          /\ idx = Len(paragraph_infos)
          /\ \A i \in 1..Len(paragraph_infos) :
                LET h == paragraph_infos[i].paragraph_ref
                IN  IF i \in Faulted
                    THEN \/ saved.paragraphs[h] = input_file.paragraphs[h]
                         \/ JoinRuns(saved.paragraphs[h]) = paragraph_infos[i].original_text
                    ELSE /\ Len(saved.paragraphs[h]) = 1
                         /\ saved.paragraphs[h][1].text =
                                TextToWrite(translated_texts[i], paragraph_infos[i].original_text)

\* The part of C12 the code keeps: the run goes on after a failure, every
\* paragraph whose write did not fail is written and the document is saved.
FailedParagraphSkipped ==
    /\ faults # <<>> => pc # "failed"
    /\ (pc = "done" /\ entry \in {"create_v2", "reinsert_v2"}) =>
          /\ saved.written
          /\ idx = Len(paragraph_infos)
          /\ \A i \in 1..Len(paragraph_infos) : i \notin Faulted =>
                LET h == paragraph_infos[i].paragraph_ref
                IN  /\ Len(saved.paragraphs[h]) = 1
                    /\ saved.paragraphs[h][1].text =
                           TextToWrite(translated_texts[i], paragraph_infos[i].original_text)

\* C11: with the identity translator, translate-and-reinsert leaves the text
\* of every paragraph (the concatenation of its runs) as it was, and the font
\* (name, size, bold, italic, underline, colour) of the first run of every
\* rewritten paragraph equal to the fingerprint captured from the original
\* first run.
IdentityRoundTrip ==
    (entry \in {"create_v2", "reinsert_v2"} /\ translator = "identity" /\ pc = "done") =>
        /\ Len(saved.paragraphs) = Len(input_file.paragraphs)
        /\ \A h \in 1..Len(input_file.paragraphs) :
              JoinRuns(saved.paragraphs[h]) = JoinRuns(input_file.paragraphs[h])
        /\ \A i \in 1..Len(paragraph_infos) :
              LET h == paragraph_infos[i].paragraph_ref
              IN  /\ saved.paragraphs[h] # <<>>
                  /\ paragraph_infos[i].first_run_font = input_file.paragraphs[h][1].font
                  /\ saved.paragraphs[h][1].font = paragraph_infos[i].first_run_font

\* A paragraph of two runs with different fonts, in a table cell, was written
\* back by the identity translator as one run with the font of the first.
IdentityRoundTripReached ==
    /\ entry = "create_v2"
    /\ translator = "identity"
    /\ pc = "done"
    /\ \E i \in 1..Len(paragraph_infos) :
          LET h == paragraph_infos[i].paragraph_ref
          IN  /\ paragraph_infos[i].shape_id = 5
              /\ input_file.paragraphs[h] = ParaTwoRuns
              /\ saved.paragraphs[h] = <<FontRun(JoinRuns(ParaTwoRuns), FontTheme)>>
    /\ \E i \in 1..Len(paragraph_infos) :
          saved.paragraphs[paragraph_infos[i].paragraph_ref] = ParaHello

\* The translated documents hold, for slide k, a TextBlock or a TableBlock
\* with the id of shape.
MatchedBy(k, shape) ==
    \E d \in 1..Len(translated_docs) :
        /\ translated_docs[d].slide_index = k - 1
        /\ \E b \in 1..Len(translated_docs[d].blocks) :
              /\ translated_docs[d].blocks[b].type \in {"text", "table"}
              /\ translated_docs[d].blocks[b].shape_id = shape.shape_id

\* C13: in create_translated_copy a shape is modified only if the translated
\* document of the same slide holds a TextBlock or a TableBlock with that
\* shape's id; a block whose shape_id matches no shape and a shape whose id
\* matches no block are skipped without error, and every unmatched shape is
\* saved unchanged.
UnmatchedShapesUnchanged ==
    (entry = "copy" /\ pc = "done") =>
        /\ err = ""
        /\ saved.written
        /\ Len(saved.slides) = Len(slides)
        /\ \A k \in 1..Len(slides) :
              LET before == _iter_shapes(slides[k].shapes)
                  after == _iter_shapes(saved.slides[k].shapes)
              IN  /\ Len(after) = Len(before)
                  /\ \A j \in 1..Len(before) :
                        ~MatchedBy(k, before[j]) => after[j] = before[j]

\* A copy was saved for translated documents that hold a block of an id no
\* shape of the slide has and a document of a slide that is not there, and
\* that leave the text box of slide 2 without a block: the text box of slide 1
\* was rewritten, the one of slide 2, of the same id, was not.
UnmatchedShapesUnchangedReached ==
    /\ entry = "copy"
    /\ pc = "done"
    /\ \E d \in 1..Len(translated_docs) : translated_docs[d].slide_index = 2
    /\ \E d \in 1..Len(translated_docs) :
          /\ translated_docs[d].slide_index = 0
          /\ \E b \in 1..Len(translated_docs[d].blocks) :
                /\ translated_docs[d].blocks[b].type = "text"
                /\ translated_docs[d].blocks[b].shape_id = 9
    /\ InTranslationMap(translated_docs, 1)
    /\ saved.slides[1].shapes[1] # slides[1].shapes[1]
    /\ saved.slides[2].shapes[1] = slides[2].shapes[1]
    /\ ~MatchedBy(2, slides[2].shapes[1])

\* The run of a written paragraph or cell has had its font size reduced, and
\* not below the floor: a run that was just written has no size of its own,
\* which _reduce_font_size reads as DefaultFontPt.
Reduced(size, pol) ==
    /\ size # 0
    /\ size < Pt(DefaultFontPt)
    /\ size >= Pt(pol.min_font_size_pt)

\* C14: for every line longer than max_chars_per_paragraph handed to
\* block-level reinsertion, into a text shape or into a table cell, either the
\* text written is no longer than max_chars_per_paragraph or the font size of
\* the shape's runs is reduced at least once and is not below
\* min_font_size_pt.
OverflowMitigated ==
    (entry = "copy" /\ pc = "done") =>
        \A k \in 1..Len(slides) : InTranslationMap(translated_docs, k - 1) =>
            LET before == _iter_shapes(slides[k].shapes)
                after == _iter_shapes(saved.slides[k].shapes)
                max_chars == policy.max_chars_per_paragraph
            IN  \A j \in 1..Len(before) :
                    LET block == BlockOf(SlideMap(translated_docs, k - 1), before[j].shape_id)
                    IN  /\ (block.type = "text" /\ HasTextFrame(before[j])) =>
                              \A i \in 1..Len(block.lines) : Len(block.lines[i]) > max_chars =>
                                  \/ Len(after[j].paras[i].text) <= max_chars
                                  \/ Reduced(after[j].paras[i].size, policy)
                        /\ (block.type = "table" /\ before[j].kind = "table") =>
                              \A r \in 1..Min(Len(block.rows), Len(before[j].rows)) :
                                  \A c \in 1..Min(Len(block.rows[r]), Len(before[j].rows[r])) :
                                      Len(block.rows[r][c]) > max_chars =>
                                          \/ Len(after[j].rows[r][c].text) <= max_chars
                                          \/ Reduced(after[j].rows[r][c].size, policy)

\* The part of C14 that holds: the lines written into a text shape.
OverflowMitigatedInTextShapes ==
    (entry = "copy" /\ pc = "done") =>
        \A k \in 1..Len(slides) : InTranslationMap(translated_docs, k - 1) =>
            LET before == _iter_shapes(slides[k].shapes)
                after == _iter_shapes(saved.slides[k].shapes)
                max_chars == policy.max_chars_per_paragraph
            IN  \A j \in 1..Len(before) :
                    LET block == BlockOf(SlideMap(translated_docs, k - 1), before[j].shape_id)
                    IN  (block.type = "text" /\ HasTextFrame(before[j])) =>
                            \A i \in 1..Len(block.lines) : Len(block.lines[i]) > max_chars =>
                                \/ Len(after[j].paras[i].text) <= max_chars
                                \/ Reduced(after[j].paras[i].size, policy)

\* The paths of at most MaxShapes steps.
PathSet == UNION {[1..n -> 1..MaxShapes] : n \in 1..MaxShapes}

\* path leads to a shape of the tree.
RECURSIVE ValidPath(_, _)
ValidPath(shapes, path) ==
    /\ path[1] <= Len(shapes)
    /\ Len(path) > 1 =>
          /\ shapes[path[1]].kind = "group"
          /\ ValidPath(shapes[path[1]].shapes, Tail(path))

\* The shape path leads to.
RECURSIVE ShapeAt(_, _)
ShapeAt(shapes, path) ==
    IF Len(path) = 1 THEN shapes[path[1]]
    ELSE ShapeAt(shapes[path[1]].shapes, Tail(path))

\* The paths of the shapes of the tree that are no groups.
LeafPaths(shapes) ==
    {path \in PathSet : ValidPath(shapes, path) /\ ShapeAt(shapes, path).kind # "group"}

\* Document order: p is a proper prefix of q, or smaller where they first
\* differ.
Precedes(p, q) ==
    \E n \in 1..Len(q) :
        /\ \A m \in 1..(n - 1) : m <= Len(p) /\ p[m] = q[m]
        /\ IF n <= Len(p) THEN p[n] < q[n] ELSE n = Len(p) + 1

\* C15: for every finite shape tree, _iter_shapes yields exactly the shapes of
\* the tree that are no groups, each once, in depth-first document order,
\* descending into groups nested to any depth; no group is yielded.
WalkerYieldsLeaves ==
    (entry = "walk" /\ pc = "done") =>
        LET shapes == slides[1].shapes
        IN  /\ \A i \in 1..Len(walked) :
                  /\ walked[i].kind # "group"
                  /\ walked[i].shape_id \in LeafPaths(shapes)
                  /\ walked[i] = ShapeAt(shapes, walked[i].shape_id)
            /\ \A path \in LeafPaths(shapes) :
                  Cardinality({i \in 1..Len(walked) : walked[i].shape_id = path}) = 1
            /\ \A i, j \in 1..Len(walked) :
                  i < j => Precedes(walked[i].shape_id, walked[j].shape_id)

\* A tree was walked whose first shape is a group holding a group holding a
\* shape, followed by a shape at the top level: both were yielded, the nested
\* one first.
WalkerYieldsLeavesReached ==
    /\ entry = "walk"
    /\ pc = "done"
    /\ Len(walked) = 2
    /\ walked[1].shape_id = <<1, 1, 1>>
    /\ walked[2].shape_id = <<2>>

\* The blocks of doc hold the block of every sound shape of its slide and no
\* block of a shape whose kind cannot be read.
SoundShapesExtracted(doc) ==
    LET leaves == _iter_shapes(slides[doc.slide_index + 1].shapes)
    IN  \A k \in 1..Len(leaves) :
            /\ leaves[k].fault = "none" =>
                  \A b \in 1..Len(ShapeBlocks(leaves[k], options)) :
                      \E c \in 1..Len(doc.blocks) :
                          doc.blocks[c] = ShapeBlocks(leaves[k], options)[b]
            /\ leaves[k].fault = "kind" =>
                  \A c \in 1..Len(doc.blocks) :
                      doc.blocks[c].type = "note" \/ doc.blocks[c].shape_id # leaves[k].shape_id

\* C16: a failure while reading any single shape (its kind, table, chart or
\* text) during extract_slide never aborts the extraction of the slide or of
\* the document: the failing shape contributes no block, and all other shapes
\* of the slide and all other slides are still extracted.
ShapeFailureContained ==
    entry = "extract" =>
        /\ pc # "failed"
        /\ pc \in {"docs", "done"} =>
              /\ Len(docs) = Cardinality({k \in 1..Len(slides) : ~Skipped(options, k - 1)})
              /\ \A d \in 1..Len(docs) : SoundShapesExtracted(docs[d])

\* The part of C16 that holds: when the call returns, the shapes that could
\* be read are extracted and the others left out.
ShapeFailureSkippedInBlocks ==
    (entry = "extract" /\ pc \in {"docs", "done"}) =>
        /\ Len(docs) = Cardinality({k \in 1..Len(slides) : ~Skipped(options, k - 1)})
        /\ \A d \in 1..Len(docs) : SoundShapesExtracted(docs[d])

\* The position among the shapes of its slide of the shape a block comes from
\* (0: no such shape).
LeafOf(doc, block) ==
    LET leaves == _iter_shapes(slides[doc.slide_index + 1].shapes)
        ks == {k \in 1..Len(leaves) : leaves[k].shape_id = block.shape_id}
    IN  IF ks = {} THEN 0 ELSE CHOOSE k \in ks : \A j \in ks : k <= j

\* The blocks of doc are in the document order of the shapes they come from,
\* and the note block, if any, follows them.
BlocksInDocumentOrder(doc) ==
    /\ \A c \in 1..Len(doc.blocks) :
          IF doc.blocks[c].type = "note" THEN c = Len(doc.blocks)
          ELSE LeafOf(doc, doc.blocks[c]) > 0
    /\ \A c, e \in 1..Len(doc.blocks) :
          (c < e /\ doc.blocks[e].type # "note") =>
              LeafOf(doc, doc.blocks[c]) < LeafOf(doc, doc.blocks[e])

\* The documents returned are those of the slides in wanted, in source order,
\* each with its blocks in document order.
DocsAre(wanted) ==
    /\ Len(docs) = Cardinality(wanted)
    /\ \A d \in 1..Len(docs) :
          /\ docs[d].slide_index + 1 \in wanted
          /\ BlocksInDocumentOrder(docs[d])
    /\ \A d, e \in 1..Len(docs) : d < e => docs[d].slide_index < docs[e].slide_index

\* The slides whose 1-based index is a member of slide_range.
InRange ==
    {k \in 1..Len(slides) :
        \E i \in 1..Len(options.slide_range.list) : options.slide_range.list[i] = k}

\* C17 as stated: extract_pptx_to_docs returns one SlideDoc for exactly the
\* slides whose 1-based index is a member of slide_range (all slides when
\* slide_range is absent), in source order; within each SlideDoc the blocks
\* appear in the document order of the shapes they come from, followed by the
\* note block if any.
SlidesOfRangeExtracted ==
    (entry = "extract" /\ pc \in {"docs", "done"}) =>
        DocsAre(IF options.slide_range.absent THEN 1..Len(slides) ELSE InRange)

\* C17, amended: extract_pptx_to_docs returns one SlideDoc for exactly the
\* slides whose 1-based index is a member of slide_range (all slides when
\* slide_range is absent or empty), in source order; within each SlideDoc the
\* blocks appear in the document order of the shapes they come from, followed
\* by the note block if any.
SlidesOfNonEmptyRangeExtracted ==
    (entry = "extract" /\ pc \in {"docs", "done"}) =>
        DocsAre(IF options.slide_range.absent \/ options.slide_range.list = <<>>
                THEN 1..Len(slides) ELSE InRange)

\* The second of two slides was extracted alone, with its notes after the
\* blocks of its shapes.
SlidesOfNonEmptyRangeExtractedReached ==
    /\ entry = "extract"
    /\ pc = "done"
    /\ Len(slides) = 2
    /\ options.slide_range.list = <<2>>
    /\ Len(docs) = 1
    /\ docs[1].slide_index = 1
    /\ Len(docs[1].blocks) > 2
    /\ docs[1].blocks[Len(docs[1].blocks)].type = "note"

\* The lines of text that are not blank, stripped.
NonBlankLines(lines) ==
    Select([i \in 1..Len(lines) |-> Strip(lines[i])],
           {i \in 1..Len(lines) : Strip(lines[i]) # <<>>})

\* The title C18 describes for a slide: the text of the title placeholder when
\* it is not blank, otherwise the first non-empty line of the first text box,
\* otherwise "Slide n".
DescribedTitle(slide, slide_index) ==
    LET titles == Select(slide.shapes, {k \in 1..Len(slide.shapes) :
                                          slide.shapes[k].kind = "title"})
        leaves == _iter_shapes(slide.shapes)
        boxes == Select(leaves, {k \in 1..Len(leaves) : leaves[k].kind = "text_box"})
    IN  IF titles # <<>> /\ Strip(Join(<<NL>>, _shape_text_lines(titles[1]))) # <<>>
        THEN Strip(Join(<<NL>>, _shape_text_lines(titles[1])))
        ELSE IF boxes # <<>> /\ NonBlankLines(_shape_text_lines(boxes[1])) # <<>>
        THEN NonBlankLines(_shape_text_lines(boxes[1]))[1]
        ELSE SlideN(slide_index)

\* C18: the title of an extracted slide is the title placeholder's text when
\* it is non-blank; otherwise the first non-empty line of the first text-box
\* shape; otherwise the synthesized "Slide n" with n the 1-based slide number.
\* In particular the title is never the empty string.
TitleResolved ==
    (entry = "extract" /\ pc \in {"docs", "done"}) =>
        \A d \in 1..Len(docs) :
            /\ docs[d].title # <<>>
            /\ docs[d].title = DescribedTitle(slides[docs[d].slide_index + 1],
                                              docs[d].slide_index)

\* The part of C18 that holds: the title is the one C18 describes whenever
\* the slide has a title placeholder that is not blank, or no text box, or a
\* first text box whose first line is not blank.
TitleResolvedUnlessBlankFirstLine ==
    (entry = "extract" /\ pc \in {"docs", "done"}) =>
        \A d \in 1..Len(docs) :
            (docs[d].title # <<>>) =>
                docs[d].title = DescribedTitle(slides[docs[d].slide_index + 1],
                                               docs[d].slide_index)

\* The markdown C19 describes for ScenarioSlide.
ScenarioMarkdown ==
    Join(<<NL>>,
         << <<"##", SP, "Slide", SP, "1", SP, "-", SP>> \o Q3Results,
            <<>>,
            <<"-", SP>> \o RevenueUp,
            <<SP, SP, "-", SP, "driven", SP, "by", SP, "APAC">>,
            <<>>,
            <<"|", SP, "Region", SP, "|", SP, "Revenue", SP, "|">>,
            <<"|", SP, "---", SP, "|", SP, "---", SP, "|">>,
            <<"|", SP, "APAC", SP, "|", SP, "20%", SP, "|">> >>) \o <<NL>>

\* C19: extracting and rendering a slide made of a title shape "Q3 Results", a
\* text box with the lines "Revenue up 20%" and "  - driven by APAC" at the
\* indent levels 0 and 1 and a table of two rows and columns with a header
\* yields exactly the header line "## Slide 1 - Q3 Results", a blank line, the
\* bullets "- Revenue up 20%" and "  - driven by APAC", a blank line and the
\* three table rows, with no other bullet or line.
ScenarioRendered ==
    (entry = "extract" /\ pc = "done" /\ slides = <<ScenarioSlide>>
        /\ options.table_header) =>
        markdown = ScenarioMarkdown

\* What _recompress_blob returns for original is nothing, or bytes of a
\* supported format that are strictly shorter.
ShorterOrNone(original) ==
    LET data == _recompress_blob(original)
    IN  /\ data # NoBlob => data.size < original.size
        /\ original.fmt \notin {"JPEG", "PNG"} => data = NoBlob
        /\ Encode(original).size >= original.size => data = NoBlob

\* C20: image optimization never makes an image larger: _recompress_blob
\* returns bytes only when they are strictly smaller than its input and
\* nothing otherwise (unsupported formats and decode failures included), and
\* in both application paths the stored bytes of an image are replaced only by
\* strictly smaller bytes, and are kept identical otherwise.
ImagesNeverGrow ==
    /\ entry \in {"create_v2", "compress"} =>
          /\ \A k \in 1..Len(input_file.parts) : ShorterOrNone(input_file.parts[k])
          /\ \A k \in 1..Len(parts) :
                parts[k] = input_file.parts[k] \/ parts[k].size < input_file.parts[k].size
          /\ saved.written =>
                \A k \in 1..Len(saved.parts) :
                    \/ saved.parts[k] = input_file.parts[k]
                    \/ saved.parts[k].size < input_file.parts[k].size
    /\ entry = "zip" =>
          /\ \A k \in 1..Len(archive) : ShorterOrNone(archive[k].data)
          /\ Len(zout) <= Len(archive)
          /\ \A k \in 1..Len(zout) :
                /\ zout[k].name = archive[k].name
                /\ zout[k].data = archive[k].data \/ zout[k].data.size < archive[k].data.size

\* compress_images_in_presentation has ended on a presentation with an image
\* whose re-encoding is longer, which was kept, and an image that was replaced
\* by shorter bytes.
ImagesNeverGrowReached ==
    /\ entry = "compress"
    /\ pc = "done"
    /\ \E k \in 1..Len(parts) : input_file.parts[k] = PngGrows /\ parts[k] = PngGrows
    /\ \E k \in 1..Len(parts) : parts[k].size < input_file.parts[k].size

\* The bytes handed to _recompress_blob so far by optimize_pptx_media_zip, in
\* order: the loop calls it once for every media image entry it has passed.
ZipCalls == [k \in 1..Cardinality({j \in 1..idx : archive[j].media}) |->
                archive[CHOOSE j \in 1..idx :
                            /\ archive[j].media
                            /\ Cardinality({i \in 1..j : archive[i].media}) = k].data]

\* The bytes handed to _recompress_blob by the optimization run that has
\* come to the state.
RecompressCalls ==
    IF entry = "zip" /\ pc \in {"zip", "done"} THEN ZipCalls
    ELSE IF entry = "compress" /\ pc = "done"
    THEN compress_images_in_presentation(slides, input_file.parts).calls
    ELSE <<>>

\* C21: in one optimization run, in compress_images_in_presentation and in
\* optimize_pptx_media_zip alike, _recompress_blob is invoked at most once
\* for every distinct image payload.
RecompressedOncePerPayload ==
    \A j, k \in 1..Len(RecompressCalls) :
        RecompressCalls[j] = RecompressCalls[k] => j = k

\* The file is one _load_glossary_from_bytes has to turn down: empty or
\* larger than MAX_FILE_SIZE_MB, of another format, not parseable, or of
\* more than MAX_GLOSSARY_ENTRIES entries.
OverLimit(file) ==
    \/ Size(file) = 0
    \/ Size(file) > MAX_FILE_SIZE_MB * MegaByte
    \/ file.ext \notin {"json", "xlsx", "xls"}
    \/ file.ext = "json" /\ file.body.kind # "dict"
    \/ file.ext \in {"xlsx", "xls"} /\ file.body.kind # "table"
    \/ Count(file.body.rows) > MAX_GLOSSARY_ENTRIES

\* C22: an uploaded glossary that is malformed or over a limit is rejected
\* before the translation is called, for JSON and Excel alike: the glossary
\* placed in the TranslationConfig never comes from such a file and never
\* holds a source or target term of more than MAX_TERM_LENGTH characters.
GlossaryWithinLimits ==
    (entry = "run_action" /\ pc = "translate" /\ cfg.glossary.kind = "dict") =>
        /\ glossary_file # NoFile
        /\ ~OverLimit(glossary_file)
        /\ Count(cfg.glossary.rows) <= MAX_GLOSSARY_ENTRIES
        /\ \A k \in 1..Len(cfg.glossary.rows) :
              /\ TermLen(cfg.glossary.rows[k].source) <= MAX_TERM_LENGTH
              /\ TermLen(cfg.glossary.rows[k].target) <= MAX_TERM_LENGTH

\* The same of the glossaries of Excel files, which the code does check.
ExcelGlossaryWithinLimits ==
    (entry = "run_action" /\ glossary_file # NoFile /\ glossary_file.ext # "json") =>
        GlossaryWithinLimits

\* The fingerprint the capture owes to a run: every property that can be
\* read, None for one whose read raises.
OwedFingerprint(run) ==
    [name |-> IF run.font.name = Unreadable THEN "none" ELSE run.font.name,
     size |-> IF run.font.size = Unreadable THEN "none" ELSE run.font.size,
     bold |-> IF run.font.bold = Unreadable THEN "none" ELSE run.font.bold,
     italic |-> IF run.font.italic = Unreadable THEN "none" ELSE run.font.italic,
     underline |-> IF run.font.underline = Unreadable THEN "none" ELSE run.font.underline,
     color |-> IF run.font.color.type = Unreadable THEN NoColor ELSE run.font.color]

\* The paragraphs of the document whose first run has a property that
\* cannot be read.
UnreadableParagraphs(props) ==
    {h \in 1..Len(input_file.paragraphs) :
        /\ input_file.paragraphs[h] # <<>>
        /\ \/ \E p \in props \cap UnguardedProps :
                  input_file.paragraphs[h][1].font[p] = Unreadable
           \/ "color" \in props /\ input_file.paragraphs[h][1].font.color.type = Unreadable}

\* C23: font capture never aborts: when reading a property of the first run
\* fails, that property is omitted from the fingerprint, the others are
\* captured, and the translation run goes on.
FontCaptureNeverAborts ==
    entry \in {"create_v2", "reinsert_v2"} =>
        /\ err # "FONT_READ"
        /\ \A i \in 1..Len(paragraph_infos) :
              paragraph_infos[i].first_run_font =
                  OwedFingerprint(input_file.paragraphs[paragraph_infos[i].paragraph_ref][1])

\* The part of C23 the code keeps: a colour that cannot be read is omitted,
\* the other properties are captured and the run goes on.
ColourCaptureNeverAborts ==
    (entry \in {"create_v2", "reinsert_v2"} /\ UnreadableParagraphs(UnguardedProps) = {}) =>
        FontCaptureNeverAborts

\* A document with a colour that cannot be read has been translated.
ColourCaptureReached ==
    /\ entry \in {"create_v2", "reinsert_v2"}
    /\ pc = "done"
    /\ UnreadableParagraphs(UnguardedProps) = {}
    /\ UnreadableParagraphs({"color"}) # {}
    /\ paragraph_infos # <<>>

\* The font setters that raised while paragraph i was written.
FailingAt(i) == UNION {faults[k].failing : k \in {j \in 1..Len(faults) : faults[j].idx = i}}

\* C24: font restore is best-effort per property: when setting some of the
\* properties on the new run fails, every other property of the fingerprint
\* is still applied and the run's text is the translated text.
FontRestoreBestEffort ==
    (entry \in {"create_v2", "reinsert_v2"} /\ pc = "done") =>
        \A i \in 1..Len(paragraph_infos) :
            LET h == paragraph_infos[i].paragraph_ref
                font_props == paragraph_infos[i].first_run_font
            IN  /\ Len(saved.paragraphs[h]) = 1
                /\ saved.paragraphs[h][1].text =
                       TextToWrite(translated_texts[i], paragraph_infos[i].original_text)
                /\ \A p \in UnguardedProps \ FailingAt(i) :
                       font_props[p] # "none" => saved.paragraphs[h][1].font[p] = font_props[p]
                /\ ("color" \notin FailingAt(i) /\ font_props.color # NoColor) =>
                       saved.paragraphs[h][1].font.color = font_props.color

\* A translated paragraph has been written while the size setter raised: the
\* new run has the typeface, the weight and the colour of the fingerprint,
\* and no size.
FontRestoreBestEffortReached ==
    /\ entry \in {"create_v2", "reinsert_v2"}
    /\ pc = "done"
    /\ \E i \in 1..Len(paragraph_infos) :
          LET h == paragraph_infos[i].paragraph_ref
          IN  /\ FailingAt(i) = {"size"}
              /\ paragraph_infos[i].first_run_font.size = "24pt"
              /\ saved.paragraphs[h][1].text = Annyeong
              /\ saved.paragraphs[h][1].font.size = "none"
              /\ saved.paragraphs[h][1].font.name = "Arial"
              /\ saved.paragraphs[h][1].font.bold = "true"
              /\ saved.paragraphs[h][1].font.color = RgbColor

\* The size _reduce_font_size reads from a run: DefaultFontPt for a run with
\* no size of its own.
SizeRead(size) == IF size = 0 THEN Pt(DefaultFontPt) ELSE size

\* C25: when block-level reinsertion reduces the font of a shape, the size
\* of every run after the step is not greater than its size before and not
\* below min_font_size_pt, whatever the run's original size.
FontReducedToFloor ==
    (entry = "reduce" /\ pc = "done") =>
        \A i \in 1..Len(slides[1].shapes[1].paras) :
            LET before == SizeRead(slides[1].shapes[1].paras[i].size)
                after == saved.slides[1].shapes[1].paras[i].size
            IN  /\ after <= before
                /\ after >= Pt(policy.min_font_size_pt)

\* The part of C25 that holds: no run is left below the floor, and a run
\* that was not below the floor is not made larger.
FontReducedAboveFloor ==
    (entry = "reduce" /\ pc = "done") =>
        \A i \in 1..Len(slides[1].shapes[1].paras) :
            LET before == SizeRead(slides[1].shapes[1].paras[i].size)
                after == saved.slides[1].shapes[1].paras[i].size
            IN  /\ after >= Pt(policy.min_font_size_pt)
                /\ before >= Pt(policy.min_font_size_pt) => after <= before

\* The objects the walk can come to from the collection it is given.
RECURSIVE ReachableFrom(_, _)
ReachableFrom(ids, n) ==
    IF n = 0 THEN ids
    ELSE ReachableFrom(ids \cup UNION {{slides[1].objects[i].shapes[k] :
                                           k \in 1..Len(slides[1].objects[i].shapes)} : i \in ids},
                       n - 1)

\* A group the walk comes to holds itself, directly or through other groups.
SelfContaining ==
    \E g \in ReachableFrom({1}, MaxObjects) :
        /\ slides[1].objects[g].kind = "group"
        /\ g \in ReachableFrom({slides[1].objects[g].shapes[k] :
                                   k \in 1..Len(slides[1].objects[g].shapes)}, MaxObjects)

FailedDecodes == {k \in 1..Len(RecompressCalls) : RecompressCalls[k].fmt = "BAD"}

\* An image that cannot be decoded keeps its bytes and the images after it
\* are processed: every entry of the archive is written, every part that can
\* be made shorter is.
DecodeFailuresContained ==
    /\ (entry = "zip" /\ pc = "done") =>
          /\ Len(zout) = Len(archive)
          /\ \A k \in 1..Len(archive) :
                /\ archive[k].data.fmt = "BAD" => zout[k] = archive[k]
                /\ (archive[k].media /\ Smaller(_recompress_blob(archive[k].data), archive[k].data))
                      => zout[k].data = _recompress_blob(archive[k].data)
    /\ (entry = "compress" /\ pc = "done") =>
          \A h \in 1..Len(parts) :
              /\ input_file.parts[h].fmt = "BAD" => parts[h] = input_file.parts[h]
              /\ Smaller(_recompress_blob(input_file.parts[h]), input_file.parts[h])
                    => parts[h] # input_file.parts[h]

\* C27: when decoding or re-encoding one image fails during optimization,
\* its original bytes are kept, the remaining images are still processed,
\* and the failure is counted in the "failures" counter of the returned
\* statistics, in compress_images_in_presentation and in
\* optimize_pptx_media_zip.
DecodeFailuresCounted ==
    /\ DecodeFailuresContained
    /\ (entry \in {"zip", "compress"} /\ pc = "done") =>
          returned.images.failures >= Cardinality(FailedDecodes)

\* C28: optimize_pptx_media_zip writes an archive with exactly the entry
\* names of the input archive, each once and in the same order; an entry
\* that is not a .jpg, .jpeg or .png file under ppt/media/ has the bytes of
\* the input entry, and a media image entry has its original bytes or
\* strictly shorter recompressed bytes.
ArchiveRewritten ==
    (entry = "zip" /\ pc \in {"zip", "done"}) =>
        /\ Len(zout) = idx
        /\ pc = "done" => Len(zout) = Len(archive)
        /\ DistinctNames(zout)
        /\ \A k \in 1..Len(zout) :
              /\ zout[k].name = archive[k].name
              /\ ~archive[k].media => zout[k].data = archive[k].data
              /\ archive[k].media =>
                    \/ zout[k].data = archive[k].data
                    \/ zout[k].data.size < archive[k].data.size

\* An archive has been rewritten in which a media image was made shorter, a
\* media image kept its bytes, and a JPEG outside ppt/media/ kept them too.
ArchiveRewrittenReached ==
    /\ entry = "zip"
    /\ pc = "done"
    /\ \E i, j, k \in 1..Len(archive) :
          /\ archive[i].media /\ zout[i].data.size < archive[i].data.size
          /\ archive[j].media /\ zout[j] = archive[j]
          /\ ~archive[k].media /\ archive[k].data = JpegLarge /\ zout[k] = archive[k]

\* The bytes handed to _recompress_blob by the compress_images_in_presentation
\* run that has ended.
CompressCalls ==
    IF entry = "compress" /\ pc = "done"
    THEN compress_images_in_presentation(slides, input_file.parts).calls
    ELSE <<>>

\* C29: in one compress_images_in_presentation run an image part is
\* recompressed at most once, however many shapes, picture fills and
\* backgrounds reference it: there are no more calls of _recompress_blob than
\* parts, and no call is handed the bytes an earlier call of the run returned
\* and the run stored in a part.
PartsRecompressedOnce ==
    /\ Len(CompressCalls) <= Len(input_file.parts)
    /\ \A j, k \in 1..Len(CompressCalls) :
          (j < k /\ Smaller(_recompress_blob(CompressCalls[j]), CompressCalls[j]))
              => CompressCalls[k] # _recompress_blob(CompressCalls[j])

\* What does hold: bytes that were kept are asked of the cache, so that no
\* payload is handed to _recompress_blob twice.
KeptBytesRecompressedOnce ==
    \A j, k \in 1..Len(CompressCalls) : CompressCalls[j] = CompressCalls[k] => j = k


\* The callback of create_translated_presentation_v2 has been handed an event
\* of ratio 1.0.
CompletionObserved ==
    /\ entry = "create_v2"
    /\ \E k \in 1..Len(progress) :
          progress[k].ratio = One(Len(texts_to_translate))

\* C30: in create_translated_presentation_v2 the event of ratio 1.0 is
\* delivered only after the output document has been saved: whenever the
\* callback has observed ratio 1.0, the output file is written and the call
\* has not failed.
CompletionAfterSave ==
    CompletionObserved => (saved.written /\ pc # "failed")

\* What does hold: the event of ratio 1.0 is the last one the callback is
\* handed, and a call that returned after it has written the output file.
CompletionIsLastEvent ==
    entry = "create_v2" =>
        /\ \A k \in 1..Len(progress) :
              progress[k].ratio = One(Len(texts_to_translate)) => k = Len(progress)
        /\ (pc = "done" /\ CompletionObserved) => saved.written

====
